---- MODULE Spec2Model ----
(***************************************************************************)
(* A model of the tafsir indexing pipeline (qul_tafsir.converter and the   *)
(* older script indexing/qul.py): the Key Codec, the Section Model Builder *)
(* and the Whole-Document Publisher.                                       *)
(*                                                                         *)
(* Python strings are modelled as sequences of one-character strings, so   *)
(* that formatting (f"{n}", f"{n:0>3}"), splitting and int() parsing are   *)
(* computed and not assumed.                                               *)
(***************************************************************************)
EXTENDS Integers, Sequences, FiniteSets, TLC

VARIABLES
    \* ---- Key Codec harness ----
    cin,        \* the input of a codec call sequence
    cstep,      \* how many conversions have been applied to cin
    out_int,    \* what ayah_key_to_int returned or raised
    out_int_b,  \* the same for the second key of a pair
    out_qul,    \* what indexing/qul.py's ayah_key_to_int returned or raised
    out_key,    \* what ayah_int_to_key returned
    \* ---- Whole-Document Publisher ----
    db,         \* the tafsir table: surah -> rows in source order
    onDuplicate,\* what the backend's create does with an id it holds
    backend,    \* the remote corpus: document id -> document
    snapshots,  \* <downloads>/<tafsir>-<surah>.json files: surah -> document
    run,        \* number of the convert_to_vectara run in progress
    pc,         \* position inside convert_to_vectara
    surah,      \* the loop variable of `for surah in range(*surah_range)`
    v_ayahs,    \* document parts built for the current surah
    log,        \* per surah, what this run did for it, in order
    raised,     \* the exception that left convert_to_vectara, if any
    faulted,    \* a transport fault was injected into some backend call
    afterPrev,  \* the corpus as the previous run left it
    unchanged,  \* this run reads the rows the previous run read
    revised,    \* the source file has been replaced by a newer export
    \* ---- Markup Extractor harness ----
    html_in,        \* the markup handed to the extractor
    split_elements, \* what split_html_by_tags returned or raised
    plain_text,     \* what the plain-text path of convert_to_agentset made of it
    \* ---- Per-Section File Publisher: Materialize ----
    tafsir,         \* the tafsir table read by convert_to_agentset: surah -> rows
    output,         \* <output>/<tafsir>/sections: directory -> section id -> files
    mat_pc,         \* position inside convert_to_agentset
    mat_surah,      \* its loop variable `surah`
    sec_idx,        \* position of `for section in sections`
    mat_run,        \* number of the convert_to_agentset run in progress
    mat_raised,     \* the exception that left convert_to_agentset, if any
    mat_log,        \* what this run did for each section, in order
    first_output,   \* the output directory as the first run left it
    \* ---- Per-Section File Publisher: Ingest ----
    ing_pc,         \* position inside ingest_to_agentset
    surah_dirs,     \* the sorted list of surah directories
    dir_idx,        \* position of `for surah_dir in surah_dirs`
    text_files,     \* list(surah_dir.glob("*.txt"))
    file_idx,       \* position of `for text_file in text_files`
    uploaded_keys,  \* the batch items collected for the current surah
    uploaded_count, \* the counter of the same name
    skipped_count,  \* the counter of the same name
    upload_calls,   \* every client.uploads.create call made: <<surah, section id>>
    store,          \* object storage: key -> what a successful PUT stored
    jobs,           \* every client.ingest_jobs.create call made
    outcome,        \* per surah directory, the stages the run has taken it through
    \* ---- Duplicate Reconciler ----
    corpus,         \* the backend's documents, in the order its listing gives them
    dry_run,        \* the argument of the same name
    keep,           \* the argument of the same name
    rec_pc,         \* position inside deduplicate_agentset
    all_docs,       \* the entries accumulated from the listing
    cursor,         \* the pagination cursor (entries already listed)
    page,           \* the page counter
    duplicates,     \* the name groups with more than one entry, sorted by name
    grp_idx,        \* position of `for name, docs in sorted(duplicates.items())`
    delete_docs,    \* the entries of the current group that are not kept
    del_idx,        \* position of `for doc in delete_docs`
    report,         \* the decisions printed, one per group
    delete_calls,   \* every client.documents.delete call made, with its result
    deleted_count,  \* the counter of the same name
    preview         \* what an earlier dry run over the same listing reported

codecVars == <<cin, cstep, out_int, out_int_b, out_qul, out_key>>
pubVars == <<db, onDuplicate, backend, snapshots, run, pc, surah, v_ayahs,
             log, raised, faulted, afterPrev, unchanged, revised>>
extVars == <<html_in, split_elements, plain_text>>
matVars == <<tafsir, output, mat_pc, mat_surah, sec_idx, mat_run, mat_raised,
             mat_log, first_output>>
ingVars == <<ing_pc, surah_dirs, dir_idx, text_files, file_idx, uploaded_keys,
             uploaded_count, skipped_count, upload_calls, store, jobs, outcome>>
recVars == <<corpus, dry_run, keep, rec_pc, all_docs, cursor, page, duplicates,
             grp_idx, delete_docs, del_idx, report, delete_calls, deleted_count,
             preview>>
vars == <<codecVars, pubVars, extVars, matVars, ingVars, recVars>>

\* what the actions of one component leave alone
outsideCodec == <<pubVars, extVars, matVars, ingVars, recVars>>
outsidePublisher == <<codecVars, extVars, matVars, ingVars, recVars>>
outsideExtractor == <<codecVars, pubVars, matVars, ingVars, recVars>>
outsideIngest == <<codecVars, pubVars, extVars, matVars, recVars>>
outsideMaterialize == <<codecVars, pubVars, extVars, ingVars, recVars>>
outsideReconciler == <<codecVars, pubVars, extVars, matVars, ingVars>>

(***************************************************************************)
(* Bounds of the model.                                                    *)
(***************************************************************************)
MaxKeyLen == 5
EdgeWidth == 2
MaxOrder == 2100
MaxRows == 2
MaxSections == 3
MaxRuns == 3
MaxElems == 2
MaxFiles == 2
MaxMatRows == 2
MaxDocs == 3
PageSize == 2

(***************************************************************************)
(* Program constants.                                                      *)
(***************************************************************************)
AyahBase == 1000
SurahEnd == 115
IdWidth == 3
DirWidth == 3

\* ------------------------------------------------------------------------
\* Python text primitives
\* ------------------------------------------------------------------------
DigitChars == <<"0", "1", "2", "3", "4", "5", "6", "7", "8", "9">>

IsDigit(c) == \E i \in 1..10 : DigitChars[i] = c

DigitVal(c) == (CHOOSE i \in 1..10 : DigitChars[i] = c) - 1

\* str(n) for n >= 0
RECURSIVE NatStr(_)
NatStr(n) ==
    IF n < 10 THEN <<DigitChars[n + 1]>>
    ELSE NatStr(n \div 10) \o <<DigitChars[(n % 10) + 1]>>

\* str(n), f"{n}"
PyStr(n) == IF n < 0 THEN <<"-">> \o NatStr(0 - n) ELSE NatStr(n)

\* f"{n:0>3}": str(n) right-aligned in IdWidth columns, filled with "0"
RECURSIVE PadLeft(_, _)
PadLeft(s, width) == IF Len(s) >= width THEN s ELSE PadLeft(<<"0">> \o s, width)

\* the value of a non-empty run of decimal digits
RECURSIVE DigitsValue(_)
DigitsValue(s) ==
    IF Len(s) = 1 THEN DigitVal(s[1])
    ELSE DigitsValue(SubSeq(s, 1, Len(s) - 1)) * 10 + DigitVal(s[Len(s)])

\* str.strip() of white space, as int() applies it
RECURSIVE LStrip(_)
LStrip(s) == IF s # <<>> /\ s[1] = " " THEN LStrip(Tail(s)) ELSE s

RECURSIVE RStrip(_)
RStrip(s) ==
    IF s # <<>> /\ s[Len(s)] = " " THEN RStrip(SubSeq(s, 1, Len(s) - 1)) ELSE s

Ok(v) == [exc |-> "none", val |-> v]
Raise(e) == [exc |-> e, val |-> 0]

\* int(s): white space stripped, an optional sign, then decimal digits
PyInt(s) ==
    LET t == RStrip(LStrip(s))
        signed == t # <<>> /\ t[1] \in {"-", "+"}
        digits == IF signed THEN Tail(t) ELSE t
    IN  IF digits = <<>> \/ \E i \in 1..Len(digits) : ~IsDigit(digits[i])
        THEN Raise("ValueError")
        ELSE IF signed /\ t[1] = "-" THEN Ok(0 - DigitsValue(digits))
        ELSE Ok(DigitsValue(digits))

\* s.split(":")
RECURSIVE Split(_)
Split(s) ==
    IF \A i \in 1..Len(s) : s[i] # ":" THEN <<s>>
    ELSE LET i == CHOOSE k \in 1..Len(s) :
                      s[k] = ":" /\ \A j \in 1..(k - 1) : s[j] # ":"
         IN  <<SubSeq(s, 1, i - 1)>> \o Split(SubSeq(s, i + 1, Len(s)))

\* ------------------------------------------------------------------------
\* Key Codec
\* ------------------------------------------------------------------------
ayah_key_to_int_base100(ayah_key) ==
    IF ayah_key = <<>> \/ \A i \in 1..Len(ayah_key) : ayah_key[i] # ":"
    THEN Raise("ValueError")
    ELSE LET parts == Split(ayah_key) IN
         IF Len(parts) # 2 THEN Raise("ValueError")
         ELSE LET s == PyInt(parts[1])
                  a == PyInt(parts[2])
              IN  IF s.exc # "none" \/ a.exc # "none" THEN Raise("ValueError")
                  ELSE Ok(s.val * 100 + a.val)

ayah_key_to_int_first_two(ayah_key) ==
    IF ayah_key = <<>> \/ \A i \in 1..Len(ayah_key) : ayah_key[i] # ":"
    THEN Raise("ValueError")
    ELSE LET parts == Split(ayah_key)
             s == PyInt(parts[1])
             a == PyInt(parts[2])
         IN  IF s.exc # "none" \/ a.exc # "none" THEN Raise("ValueError")
             ELSE Ok(s.val * AyahBase + a.val)

\* TafsirConverter.ayah_key_to_int
ayah_key_to_int(ayah_key) ==
    IF ayah_key = <<>> \/ \A i \in 1..Len(ayah_key) : ayah_key[i] # ":"
    THEN Raise("ValueError")
    ELSE LET parts == Split(ayah_key) IN
         IF Len(parts) # 2 THEN Raise("ValueError")
         ELSE LET s == PyInt(parts[1])
                  a == PyInt(parts[2])
              IN  IF s.exc # "none" \/ a.exc # "none" THEN Raise("ValueError")
                  ELSE Ok(s.val * AyahBase + a.val)

\* indexing/qul.py ayah_key_to_int: `surah, ayah = ayah_key.split(":")` is a
\* ValueError unless the split has exactly two parts, and so is a failed int()
qul_ayah_key_to_int(ayah_key) ==
    LET parts == Split(ayah_key) IN
    IF Len(parts) # 2 THEN Raise("ValueError")
    ELSE LET s == PyInt(parts[1])
             a == PyInt(parts[2])
         IN  IF s.exc # "none" \/ a.exc # "none" THEN Raise("ValueError")
             ELSE Ok(s.val * AyahBase + a.val)

ayah_int_to_key_swapped(ayah_int) ==
    PyStr(ayah_int % AyahBase) \o <<":">> \o PyStr(ayah_int \div AyahBase)

\* TafsirConverter.ayah_int_to_key (indexing/qul.py holds the same body)
ayah_int_to_key(ayah_int) ==
    PyStr(ayah_int \div AyahBase) \o <<":">> \o PyStr(ayah_int % AyahBase)

\* ------------------------------------------------------------------------
\* Key Codec: inputs and calls
\* ------------------------------------------------------------------------
Pending == [exc |-> "pending", val |-> 0]

\* f"{surah}:{ayah}", the textual form of a verse key
FormatKey(s, a) == PyStr(s) \o <<":">> \o PyStr(a)

KeyAlphabet == {"1", ":", "a", "-", " "}

RawKeys == UNION {[1..n -> KeyAlphabet] : n \in 0..MaxKeyLen}

\* chapters 1..114 and verses 1..999, sampled at both ends of the range and
\* where the number of decimal digits changes
SampleSurahs ==
    (1..EdgeWidth) \cup {9, 10, 99, 100} \cup ((SurahEnd - EdgeWidth)..(SurahEnd - 1))

SampleAyahs ==
    (1..EdgeWidth) \cup {9, 10, 99, 100, 101}
        \cup ((AyahBase - EdgeWidth)..(AyahBase - 1))

SampleInts == (0..MaxOrder) \cup {113999, 114000, 114999, 1000000, 123456789}

NoKey == [kind |-> "idle", key |-> <<>>, keyB |-> <<>>, surah |-> 0, ayah |-> 0,
          surahB |-> 0, ayahB |-> 0, int |-> 0]

RawInput(k) == [NoKey EXCEPT !.kind = "raw", !.key = k]

PairInput(s, a, sb, ab) ==
    [kind |-> "pair", key |-> FormatKey(s, a), keyB |-> FormatKey(sb, ab),
     surah |-> s, ayah |-> a, surahB |-> sb, ayahB |-> ab, int |-> 0]

IntInput(n) == [NoKey EXCEPT !.kind = "int", !.int = n]

CodecInputs ==
    {RawInput(k) : k \in RawKeys}
        \cup {PairInput(p[1], p[2], p[3], p[4]) :
                 p \in SampleSurahs \X SampleAyahs \X SampleSurahs \X SampleAyahs}
        \cup {IntInput(n) : n \in SampleInts}

CodecIdle ==
    /\ cin = NoKey
    /\ cstep = 0
    /\ out_int = Pending
    /\ out_int_b = Pending
    /\ out_qul = Pending
    /\ out_key = <<>>

CodecInit ==
    /\ cin \in CodecInputs
    /\ cstep = 0
    /\ out_int = Pending
    /\ out_int_b = Pending
    /\ out_qul = Pending
    /\ out_key = <<>>

\* a caller hands a verse key (or two) to TafsirConverter.ayah_key_to_int
KeyToInt ==
    /\ cin.kind \in {"raw", "pair"}
    /\ cstep = 0
    /\ out_int' = ayah_key_to_int(cin.key)
    /\ out_int_b' = IF cin.kind = "pair" THEN ayah_key_to_int(cin.keyB) ELSE out_int_b
    /\ cstep' = 1
    /\ UNCHANGED <<cin, out_qul, out_key>>
    /\ UNCHANGED outsideCodec

\* the same key handed to the script's ayah_key_to_int
QulKeyToInt ==
    /\ cin.kind = "raw"
    /\ out_qul = Pending
    /\ out_qul' = qul_ayah_key_to_int(cin.key)
    /\ UNCHANGED <<cin, cstep, out_int, out_int_b, out_key>>
    /\ UNCHANGED outsideCodec

\* the integer obtained is converted back to a key
IntToKeyBack ==
    /\ cin.kind \in {"raw", "pair"}
    /\ cstep = 1
    /\ out_int.exc = "none"
    /\ out_key' = ayah_int_to_key(out_int.val)
    /\ cstep' = 2
    /\ UNCHANGED <<cin, out_int, out_int_b, out_qul>>
    /\ UNCHANGED outsideCodec

\* a caller hands an integer to ayah_int_to_key
IntToKey ==
    /\ cin.kind = "int"
    /\ cstep = 0
    /\ out_key' = ayah_int_to_key(cin.int)
    /\ cstep' = 1
    /\ UNCHANGED <<cin, out_int, out_int_b, out_qul>>
    /\ UNCHANGED outsideCodec

\* the key obtained is converted back to an integer
KeyToIntBack ==
    /\ cin.kind = "int"
    /\ cstep = 1
    /\ out_int' = ayah_key_to_int(out_key)
    /\ cstep' = 2
    /\ UNCHANGED <<cin, out_int_b, out_qul, out_key>>
    /\ UNCHANGED outsideCodec

CodecNext == KeyToInt \/ QulKeyToInt \/ IntToKeyBack \/ IntToKey \/ KeyToIntBack

\* ------------------------------------------------------------------------
\* Markup Extractor
\* ------------------------------------------------------------------------
\* The `text` column: NULL, or markup given as the tree its parser builds, the
\* top-level nodes in document order.  A text is a sequence of words and
\* white-space characters; an element holds its leading text and then its
\* child nodes; a node with tag "#text" is a bare text node.
NullText == [null |-> TRUE, elems |-> <<>>]
Markup(elems) == [null |-> FALSE, elems |-> elems]
El(tag, text) == [tag |-> tag, text |-> text, kids |-> <<>>]
Nest(tag, text, kids) == [tag |-> tag, text |-> text, kids |-> kids]

StructuralTags == {"h1", "h2", "p"}

IsStructural(e) == e.tag \in StructuralTags

\* soup.find_all([...]): the elements with one of the tags, at any depth, in
\* document order
RECURSIVE find_all_any_tag(_)
find_all_any_tag(elems) ==
    IF elems = <<>> THEN <<>>
    ELSE LET e == Head(elems) IN
         (IF e.tag # "#text" THEN <<e>> ELSE <<>>)
             \o find_all_any_tag(e.kids) \o find_all_any_tag(Tail(elems))

RECURSIVE find_all(_)
find_all(elems) ==
    IF elems = <<>> THEN <<>>
    ELSE LET e == Head(elems) IN
         (IF IsStructural(e) THEN <<e>> ELSE <<>>)
             \o find_all(e.kids) \o find_all(Tail(elems))

\* element.get_text(): the texts of the element and of all it contains, joined
RECURSIVE get_text(_)
get_text(e) ==
    LET RECURSIVE inner(_)
        inner(kids) ==
            IF kids = <<>> THEN <<>> ELSE get_text(Head(kids)) \o inner(Tail(kids))
    IN  e.text \o inner(e.kids)

RECURSIVE GetTexts(_)
GetTexts(elems) ==
    IF elems = <<>> THEN <<>> ELSE <<get_text(Head(elems))>> \o GetTexts(Tail(elems))

split_html_by_tags_any_tag(html) ==
    IF html.null THEN Raise("TypeError")
    ELSE Ok(GetTexts(find_all_any_tag(html.elems)))

\* TafsirConverter.split_html_by_tags; BeautifulSoup(None, ...) is a TypeError
split_html_by_tags(html) ==
    IF html.null THEN Raise("TypeError")
    ELSE Ok(GetTexts(find_all(html.elems)))

\* the text nodes of a tree, in document order
RECURSIVE strings(_)
strings(elems) ==
    IF elems = <<>> THEN <<>>
    ELSE <<Head(elems).text>> \o strings(Head(elems).kids) \o strings(Tail(elems))

\* "\n".join(...) of the stripped text nodes that are not empty
RECURSIVE JoinStripped(_, _)
JoinStripped(texts, acc) ==
    IF texts = <<>> THEN acc
    ELSE LET s == RStrip(LStrip(Head(texts))) IN
         IF s = <<>> THEN JoinStripped(Tail(texts), acc)
         ELSE JoinStripped(Tail(texts),
                  IF acc = <<>> THEN s ELSE acc \o <<"\n">> \o s)

\* BeautifulSoup(html_text, "lxml").get_text(separator="\n", strip=True)
get_text_stripped(elems) == JoinStripped(strings(elems), <<>>)

NoText == [skip |-> "pending", text |-> <<>>]

section_plain_text_no_empty_test(html_text) ==
    IF html_text.null \/ html_text.elems = <<>>
    THEN [skip |-> "no_html", text |-> <<>>]
    ELSE [skip |-> "none", text |-> get_text_stripped(html_text.elems)]

\* convert_to_agentset, from `if not html_text` to `if not plain_text`
section_plain_text(html_text) ==
    IF html_text.null \/ html_text.elems = <<>>
    THEN [skip |-> "no_html", text |-> <<>>]
    ELSE LET plain == get_text_stripped(html_text.elems) IN
         IF plain = <<>> THEN [skip |-> "empty_text", text |-> <<>>]
         ELSE [skip |-> "none", text |-> plain]

\* ------------------------------------------------------------------------
\* Markup Extractor: inputs and calls
\* ------------------------------------------------------------------------
LeafTexts == {<<>>, <<"a">>}

AnyTags == {"h1", "h2", "p", "div"}

\* elements without children; a paragraph of white space; a bare text
Leaves ==
    {El(tag, x) : tag \in AnyTags, x \in LeafTexts}
        \cup {El("p", <<" ">>), El("#text", <<" ", "t", " ">>)}

\* an element with a text and one child element
Nested == {Nest(tag, <<"b">>, <<k>>) : tag \in {"p", "div"}, k \in Leaves}

Nodes == Leaves \cup Nested

ExtractorInputs ==
    {NullText} \cup {Markup(f) : f \in UNION {[1..n -> Nodes] : n \in 0..MaxElems}}

ExtractorIdle ==
    /\ html_in = NullText
    /\ split_elements = Pending
    /\ plain_text = NoText

ExtractorInit ==
    /\ html_in \in ExtractorInputs
    /\ split_elements = Pending
    /\ plain_text = NoText

\* a caller hands the markup to split_html_by_tags
SplitHtml ==
    /\ split_elements = Pending
    /\ split_elements' = split_html_by_tags(html_in)
    /\ UNCHANGED <<html_in, plain_text>>
    /\ UNCHANGED outsideExtractor

\* convert_to_agentset takes the markup of a section to its plain text
StripHtml ==
    /\ plain_text = NoText
    /\ plain_text' = section_plain_text(html_in)
    /\ UNCHANGED <<html_in, split_elements>>
    /\ UNCHANGED outsideExtractor

ExtractorNext == SplitHtml \/ StripHtml

\* ------------------------------------------------------------------------
\* Section Model Builder: the row loops of convert_to_vectara
\* ------------------------------------------------------------------------
Fragment(ayah, from_int, to_int, part) ==
    [metadata |-> [ayah_key |-> ayah.ayah_key,
                   group_ayah_key |-> ayah.group_ayah_key,
                   from_ayah |-> ayah.from_ayah,
                   to_ayah |-> ayah.to_ayah,
                   from_ayah_int |-> from_int,
                   to_ayah_int |-> to_int,
                   ayah_keys |-> ayah.ayah_keys],
     text |-> part]

\* `for part in parts: if part: v_ayahs.append({...})`
RECURSIVE AppendPartsKeepEmpty(_, _, _)
AppendPartsKeepEmpty(ayah, parts, acc) ==
    IF parts = <<>> THEN Ok(acc)
    ELSE LET f == ayah_key_to_int(ayah.from_ayah)
             t == ayah_key_to_int(ayah.to_ayah)
         IN  IF f.exc # "none" THEN Raise(f.exc)
             ELSE IF t.exc # "none" THEN Raise(t.exc)
             ELSE AppendPartsKeepEmpty(ayah, Tail(parts),
                      Append(acc, Fragment(ayah, f.val, t.val, Head(parts))))

RECURSIVE AppendParts(_, _, _)
AppendParts(ayah, parts, acc) ==
    IF parts = <<>> THEN Ok(acc)
    ELSE IF Head(parts) = <<>> THEN AppendParts(ayah, Tail(parts), acc)
    ELSE LET f == ayah_key_to_int(ayah.from_ayah)
             t == ayah_key_to_int(ayah.to_ayah)
         IN  IF f.exc # "none" THEN Raise(f.exc)
             ELSE IF t.exc # "none" THEN Raise(t.exc)
             ELSE AppendParts(ayah, Tail(parts),
                      Append(acc, Fragment(ayah, f.val, t.val, Head(parts))))

\* `for ayah in ayahs: parts = self.split_html_by_tags(ayah[5]); ...`
RECURSIVE ConvertAyahs(_, _)
ConvertAyahs(ayahs, acc) ==
    IF ayahs = <<>> THEN Ok(acc)
    ELSE LET parts == split_html_by_tags(Head(ayahs).text) IN
         IF parts.exc # "none" THEN Raise(parts.exc)
         ELSE LET r == AppendParts(Head(ayahs), parts.val, acc) IN
              IF r.exc # "none" THEN r ELSE ConvertAyahs(Tail(ayahs), r.val)

\* ------------------------------------------------------------------------
\* Whole-Document Publisher: inputs
\* ------------------------------------------------------------------------
TafsirName == <<"q">>

\* surah_range, as handed to range(*surah_range): surahs 99 and 100
SurahRange == <<99, 101>>

Surahs == SurahRange[1]..(SurahRange[2] - 1)

\* a row of the tafsir table
Row(s, a, from_ayah, to_ayah, text) ==
    [ayah_key |-> FormatKey(s, a), group_ayah_key |-> FormatKey(s, a),
     from_ayah |-> from_ayah, to_ayah |-> to_ayah, ayah_keys |-> "ayah_keys",
     text |-> text]

\* a heading, a tag that is not structural, an empty paragraph, a paragraph
GoodRow(s) ==
    Row(s, 1, FormatKey(s, 1), FormatKey(s, 2),
        Markup(<<El("h1", <<"Title">>), El("div", <<"ignored">>), El("p", <<>>),
                 El("p", <<"Body">>)>>))

\* a row whose commentary is the empty string
EmptyRow(s) == Row(s, 9, FormatKey(s, 9), FormatKey(s, 9), Markup(<<>>))

\* a row whose from_ayah is no verse key
BadKeyRow(s) ==
    Row(s, 10, PyStr(s), FormatKey(s, 10), Markup(<<El("p", <<"Malformed">>)>>))

SecondRow(s) ==
    Row(s, 99, FormatKey(s, 99), FormatKey(s, 100), Markup(<<El("h2", <<"Next">>)>>))

\* nothing to extract and no verse key either
PlaceholderRow(s) == Row(s, 100, <<>>, <<>>, Markup(<<El("div", <<"none">>)>>))

NullRow(s) == Row(s, 101, FormatKey(s, 101), FormatKey(s, 101), NullText)

RowSeqs(rows, n) == UNION {[1..k -> rows] : k \in 0..n}

PublisherRows(s) == {GoodRow(s), EmptyRow(s), BadKeyRow(s)}

BuilderRows(s) ==
    {GoodRow(s), EmptyRow(s), BadKeyRow(s), SecondRow(s), PlaceholderRow(s),
     NullRow(s)}

\* ------------------------------------------------------------------------
\* Whole-Document Publisher: convert_to_vectara
\* ------------------------------------------------------------------------
\* "id": f"{tafsir_name}-{surah:0>3}"
core_doc_id(s) == TafsirName \o <<"-">> \o PadLeft(PyStr(s), IdWidth)

\* document_id=f"{tafsir_name}-{surah}"
delete_document_id(s) == TafsirName \o <<"-">> \o PyStr(s)

\* downloads_dir / f"{tafsir_name}-{surah}.json"
json_file_path(s) == TafsirName \o <<"-">> \o PyStr(s)

core_doc(s, parts) ==
    [type |-> "core",
     id |-> core_doc_id(s),
     metadata |-> [tafsir |-> TafsirName, surah |-> PadLeft(PyStr(s), IdWidth)],
     document_parts |-> parts]

NoFile == [type |-> "absent"]

EmptyLog == [s \in Surahs |-> <<>>]

\* the loop moves to the next surah, or the range is exhausted
Advance ==
    /\ surah' = surah + 1
    /\ pc' = IF surah + 1 < SurahRange[2] THEN "fetch" ELSE "done"

Logged(e) == [log EXCEPT ![surah] = Append(@, e)]

BuildDocumentAlwaysPublish ==
    /\ pc = "fetch"
    /\ LET r == ConvertAyahs(db[surah], <<>>) IN
       IF r.exc # "none"
       THEN /\ pc' = "aborted"
            /\ raised' = r.exc
            /\ log' = Logged("raise")
            /\ UNCHANGED <<surah, v_ayahs>>
       ELSE /\ v_ayahs' = r.val
            /\ pc' = "snapshot"
            /\ log' = Logged("built")
            /\ UNCHANGED <<surah, raised>>
    /\ UNCHANGED <<db, onDuplicate, backend, snapshots, run, faulted, afterPrev,
                   unchanged, revised>>
    /\ UNCHANGED outsidePublisher

\* the query, the row loops and the test `len(v_ayahs) != 0`
BuildDocument ==
    /\ pc = "fetch"
    /\ LET r == ConvertAyahs(db[surah], <<>>) IN
       IF r.exc # "none"
       THEN /\ pc' = "aborted"
            /\ raised' = r.exc
            /\ log' = Logged("raise")
            /\ UNCHANGED <<surah, v_ayahs>>
       ELSE /\ v_ayahs' = r.val
            /\ IF Len(r.val) # 0
               THEN /\ pc' = "snapshot"
                    /\ log' = Logged("built")
                    /\ UNCHANGED surah
               ELSE /\ Advance
                    /\ log' = Logged("empty")
            /\ UNCHANGED raised
    /\ UNCHANGED <<db, onDuplicate, backend, snapshots, run, faulted, afterPrev,
                   unchanged, revised>>
    /\ UNCHANGED outsidePublisher

WriteSnapshotSkipped ==
    /\ pc = "snapshot"
    /\ pc' = "delete"
    /\ UNCHANGED <<db, onDuplicate, backend, snapshots, run, surah, v_ayahs, log,
                   raised, faulted, afterPrev, unchanged, revised>>
    /\ UNCHANGED outsidePublisher

\* json.dump(core_doc, json_file, ...)
WriteSnapshot ==
    /\ pc = "snapshot"
    /\ snapshots' = [snapshots EXCEPT ![json_file_path(surah)] = core_doc(surah, v_ayahs)]
    /\ log' = Logged("snapshot")
    /\ pc' = "delete"
    /\ UNCHANGED <<db, onDuplicate, backend, run, surah, v_ayahs, raised, faulted,
                   afterPrev, unchanged, revised>>
    /\ UNCHANGED outsidePublisher

Without(f, k) == [x \in DOMAIN f \ {k} |-> f[x]]

\* client.documents.delete of the backend: the document goes, or the call
\* fails (not found, or a transport fault)
DeleteCall(id, ok, notfound, error) ==
    \/ /\ id \in DOMAIN backend
       /\ backend' = Without(backend, id)
       /\ ok
       /\ UNCHANGED faulted
    \/ /\ id \notin DOMAIN backend
       /\ notfound
       /\ UNCHANGED <<backend, faulted>>
    \/ /\ faulted' = TRUE
       /\ error
       /\ UNCHANGED backend

DeleteDocumentPropagating ==
    /\ pc = "delete"
    /\ DeleteCall(delete_document_id(surah),
                  log' = Logged("delete:ok") /\ pc' = "create" /\ UNCHANGED raised,
                  log' = Logged("delete:notfound") /\ pc' = "create"
                      /\ UNCHANGED raised,
                  log' = Logged("delete:error") /\ pc' = "aborted"
                      /\ raised' = "delete")
    /\ UNCHANGED <<db, onDuplicate, snapshots, run, surah, v_ayahs, afterPrev,
                   unchanged, revised>>
    /\ UNCHANGED outsidePublisher

\* try: self.client.documents.delete(...) except Exception: log
DeleteDocument ==
    /\ pc = "delete"
    /\ DeleteCall(delete_document_id(surah),
                  log' = Logged("delete:ok"),
                  log' = Logged("delete:notfound"),
                  log' = Logged("delete:error"))
    /\ pc' = "create"
    /\ UNCHANGED <<db, onDuplicate, snapshots, run, surah, v_ayahs, raised,
                   afterPrev, unchanged, revised>>
    /\ UNCHANGED outsidePublisher

\* client.documents.create of the backend: an id is held at most once; a
\* request for an id already held is refused or replaces the document
CreateCall(doc, ok, conflict, error) ==
    \/ /\ doc.id \notin DOMAIN backend
       /\ backend' = (doc.id :> doc) @@ backend
       /\ ok
       /\ UNCHANGED faulted
    \/ /\ doc.id \in DOMAIN backend
       /\ onDuplicate = "replace"
       /\ backend' = [backend EXCEPT ![doc.id] = doc]
       /\ ok
       /\ UNCHANGED faulted
    \/ /\ doc.id \in DOMAIN backend
       /\ onDuplicate = "reject"
       /\ conflict
       /\ UNCHANGED <<backend, faulted>>
    \/ /\ faulted' = TRUE
       /\ error
       /\ UNCHANGED backend

\* self.client.documents.create(...): not guarded, an exception leaves the run
CreateDocument ==
    /\ pc = "create"
    /\ CreateCall(core_doc(surah, v_ayahs),
                  log' = Logged("create:ok") /\ Advance /\ UNCHANGED raised,
                  log' = Logged("create:conflict") /\ pc' = "aborted"
                      /\ raised' = "create" /\ UNCHANGED surah,
                  log' = Logged("create:error") /\ pc' = "aborted"
                      /\ raised' = "create" /\ UNCHANGED surah)
    /\ UNCHANGED <<db, onDuplicate, snapshots, run, v_ayahs, afterPrev, unchanged,
                   revised>>
    /\ UNCHANGED outsidePublisher

\* the process is terminated after the delete call has returned and before
\* the create call is made
KillBeforeCreate ==
    /\ pc = "create"
    /\ pc' = "aborted"
    /\ raised' = "killed"
    /\ log' = Logged("killed")
    /\ UNCHANGED <<db, onDuplicate, backend, snapshots, run, surah, v_ayahs, faulted,
                   afterPrev, unchanged, revised>>
    /\ UNCHANGED outsidePublisher

\* a new process calls convert_to_vectara over the same range
StartRun ==
    /\ pc \in {"done", "aborted"}
    /\ run < MaxRuns
    /\ run' = run + 1
    /\ pc' = "fetch"
    /\ surah' = SurahRange[1]
    /\ v_ayahs' = <<>>
    /\ log' = EmptyLog
    /\ raised' = "none"
    /\ afterPrev' = backend
    /\ UNCHANGED <<onDuplicate, backend, snapshots, faulted>>

\* the command is run again over the same source file
NextRun ==
    /\ StartRun
    /\ unchanged' = TRUE
    /\ UNCHANGED <<db, revised>>
    /\ UNCHANGED outsidePublisher

ReviseElems(elems) ==
    [i \in 1..Len(elems) |->
        IF elems[i].text = <<>> THEN elems[i]
        ELSE [elems[i] EXCEPT !.text = <<"Revised">>]]

\* the rows of a newer export: the same passages, their commentary reworded
Revise(rows) ==
    [i \in 1..Len(rows) |->
        [rows[i] EXCEPT !.text.elems = ReviseElems(@)]]

\* download_tafsir fetches a newer export of the source (the file of the
\* older one is gone), and the command is run again
NextRunNewExport ==
    /\ StartRun
    /\ ~revised
    /\ revised' = TRUE
    /\ db' = [s \in Surahs |-> Revise(db[s])]
    /\ unchanged' = FALSE
    /\ UNCHANGED outsidePublisher

PublisherStart ==
    /\ snapshots = [s \in {json_file_path(x) : x \in Surahs} |-> NoFile]
    /\ run = 1
    /\ pc = "fetch"
    /\ surah = SurahRange[1]
    /\ v_ayahs = <<>>
    /\ log = EmptyLog
    /\ raised = "none"
    /\ faulted = FALSE
    /\ afterPrev = <<>>
    /\ unchanged = FALSE
    /\ revised = FALSE

PublisherInit ==
    /\ db \in [Surahs -> RowSeqs(UNION {PublisherRows(s) : s \in Surahs}, MaxRows)]
    /\ \A s \in Surahs : \A i \in 1..Len(db[s]) : db[s][i] \in PublisherRows(s)
    /\ onDuplicate \in {"reject", "replace"}
    /\ backend = <<>>
    /\ PublisherStart

\* ------------------------------------------------------------------------
\* Per-Section File Publisher: the output directory
\* ------------------------------------------------------------------------
\* f"surah-{surah:03d}"
surah_dir_name(s) == <<"s", "u", "r", "a", "h", "-">> \o PadLeft(PyStr(s), DirWidth)

safe_id_chapter_only(group_ayah_key) == Split(group_ayah_key)[1]

\* group_ayah_key.replace(":", "-")
safe_id(group_ayah_key) ==
    [i \in 1..Len(group_ayah_key) |->
        IF group_ayah_key[i] = ":" THEN "-" ELSE group_ayah_key[i]]

\* f"section-{safe_id}.txt"
section_filename(id) == <<"section-">> \o id \o <<".txt">>

\* TafsirConverter._generate_section_metadata
generate_section_metadata(tafsir_name, s, row) ==
    LET f == ayah_key_to_int(row.from_ayah)
        t == ayah_key_to_int(row.to_ayah)
    IN  IF f.exc # "none" THEN Raise(f.exc)
        ELSE IF t.exc # "none" THEN Raise(t.exc)
        ELSE Ok([tafsir_name |-> tafsir_name,
                 surah |-> s,
                 ayah_key |-> row.ayah_key,
                 group_ayah_key |-> row.group_ayah_key,
                 from_ayah |-> row.from_ayah,
                 to_ayah |-> row.to_ayah,
                 from_ayah_int |-> f.val,
                 to_ayah_int |-> t.val,
                 ayah_keys |-> row.ayah_keys])

\* no `.metadata.json` next to a text file
NoMeta == [tafsir_name |-> <<>>]

\* a section's files: the text file and its sidecar
Artifact(txt, meta) == [txt |-> txt, meta |-> meta]

NoDirs == [d \in {} |-> <<>>]

\* ------------------------------------------------------------------------
\* Per-Section File Publisher: Materialize (convert_to_agentset)
\* ------------------------------------------------------------------------
\* surah_range, as handed to range(*surah_range): surahs 2 and 3
MatRange == <<2, 4>>

MatSurahs == MatRange[1]..(MatRange[2] - 1)

\* a paragraph of white space only
BlankRow(s) ==
    Row(s, 100, FormatKey(s, 100), FormatKey(s, 100), Markup(<<El("p", <<" ">>)>>))

\* a second row of the passage of GoodRow, with a commentary of its own
SharedGroupRow(s) ==
    [Row(s, 2, FormatKey(s, 1), FormatKey(s, 2),
         Markup(<<Nest("div", <<" ", "More">>, <<El("p", <<"Text", " ">>)>>)>>))
        EXCEPT !.group_ayah_key = FormatKey(s, 1)]

MaterializeRows(s) ==
    IF s = MatRange[1]
    THEN {GoodRow(s), EmptyRow(s), NullRow(s), BlankRow(s), BadKeyRow(s),
          SecondRow(s), SharedGroupRow(s)}
    ELSE {GoodRow(s), EmptyRow(s)}

\* convert_to_agentset is not running
MaterializeOff ==
    /\ tafsir = <<>>
    /\ mat_pc = "idle"
    /\ mat_surah = 0
    /\ sec_idx = 0
    /\ mat_run = 0
    /\ mat_raised = "none"
    /\ mat_log = <<>>
    /\ first_output = NoDirs

MaterializeIdle == MaterializeOff /\ output = NoDirs

MaterializeInit ==
    /\ tafsir \in [MatSurahs ->
                     RowSeqs(UNION {MaterializeRows(s) : s \in MatSurahs}, MaxMatRows)]
    /\ \A s \in MatSurahs : \A i \in 1..Len(tafsir[s]) :
          /\ tafsir[s][i] \in MaterializeRows(s)
          /\ \A j \in 1..Len(tafsir[s]) :
                tafsir[s][i].ayah_key = tafsir[s][j].ayah_key => i = j
    /\ output = NoDirs
    /\ mat_pc = "surah"
    /\ mat_surah = MatRange[1]
    /\ sec_idx = 0
    /\ mat_run = 1
    /\ mat_raised = "none"
    /\ mat_log = <<>>
    /\ first_output = NoDirs

\* `for surah in range(*surah_range)` moves on, or the range is exhausted
NextSurah ==
    /\ mat_surah' = mat_surah + 1
    /\ mat_pc' = IF mat_surah + 1 < MatRange[2] THEN "surah" ELSE "done"
    /\ sec_idx' = 0

\* surah_dir.mkdir(parents=True, exist_ok=True) and the query of the sections
EnterSurah ==
    /\ mat_pc = "surah"
    /\ LET d == surah_dir_name(mat_surah) IN
       output' = IF d \in DOMAIN output THEN output ELSE (d :> <<>>) @@ output
    /\ IF tafsir[mat_surah] = <<>>
       THEN NextSurah
       ELSE /\ sec_idx' = 1
            /\ mat_pc' = "section"
            /\ UNCHANGED mat_surah
    /\ UNCHANGED <<tafsir, mat_run, mat_raised, mat_log, first_output>>
    /\ UNCHANGED outsideMaterialize

\* open(path, "w") ... f.write(...): the file is created or overwritten
WriteAppending(dir, id, txt, meta) ==
    IF id \in DOMAIN dir
    THEN [dir EXCEPT ![id] = Artifact(@.txt \o txt, meta)]
    ELSE (id :> Artifact(txt, meta)) @@ dir

Write(dir, id, txt, meta) ==
    IF id \in DOMAIN dir
    THEN [dir EXCEPT ![id] = Artifact(txt, meta)]
    ELSE (id :> Artifact(txt, meta)) @@ dir

\* the sidecar next to a text file, if there is one
MetaOf(dir, id) == IF id \in DOMAIN dir THEN dir[id].meta ELSE NoMeta

Did(event, files) ==
    Append(mat_log, [surah |-> mat_surah, idx |-> sec_idx, event |-> event,
                     files |-> files])

\* `for section in sections` moves on, or the surah is completed
NextSection ==
    IF sec_idx < Len(tafsir[mat_surah])
    THEN /\ sec_idx' = sec_idx + 1
         /\ UNCHANGED <<mat_pc, mat_surah>>
    ELSE NextSurah

\* one pass of the loop over the sections of a surah: the two skips, the text
\* file, the metadata (which may raise) and the metadata file
MaterializeSection ==
    /\ mat_pc = "section"
    /\ LET section == tafsir[mat_surah][sec_idx]
           d == surah_dir_name(mat_surah)
           plain == section_plain_text(section.text)
           id == safe_id(section.group_ayah_key)
           metadata == generate_section_metadata(TafsirName, mat_surah, section)
       IN  IF plain.skip # "none"
           THEN /\ mat_log' = Did(plain.skip, {})
                /\ NextSection
                /\ UNCHANGED <<output, mat_raised>>
           ELSE IF metadata.exc # "none"
           THEN /\ output' = [output EXCEPT
                                ![d] = Write(@, id, plain.text, MetaOf(@, id))]
                /\ mat_log' = Did("raise", {"txt"})
                /\ mat_raised' = metadata.exc
                /\ mat_pc' = "aborted"
                /\ UNCHANGED <<mat_surah, sec_idx>>
           ELSE /\ output' = [output EXCEPT
                                ![d] = Write(@, id, plain.text, metadata.val)]
                /\ mat_log' = Did("written", {"txt", "meta"})
                /\ NextSection
                /\ UNCHANGED mat_raised
    /\ UNCHANGED <<tafsir, mat_run, first_output>>
    /\ UNCHANGED outsideMaterialize

\* the command is run a second time over the same source file and range
RunAgain ==
    /\ mat_pc \in {"done", "aborted"}
    /\ mat_run = 1
    /\ mat_run' = 2
    /\ first_output' = output
    /\ mat_pc' = "surah"
    /\ mat_surah' = MatRange[1]
    /\ sec_idx' = 0
    /\ mat_raised' = "none"
    /\ mat_log' = <<>>
    /\ UNCHANGED <<tafsir, output>>
    /\ UNCHANGED outsideMaterialize

MaterializeNext == EnterSurah \/ MaterializeSection \/ RunAgain

\* ------------------------------------------------------------------------
\* Per-Section File Publisher: Ingest (ingest_to_agentset)
\* ------------------------------------------------------------------------
\* characters of directory names, in code point order
CodePoints ==
    <<"-", "0", "1", "2", "3", "4", "5", "6", "7", "8", "9",
      "a", "d", "e", "h", "m", "n", "r", "s", "u", "x", "y">>

CodePoint(c) == CHOOSE i \in 1..Len(CodePoints) : CodePoints[i] = c

\* a < b for two strings
RECURSIVE StrLess(_, _)
StrLess(a, b) ==
    IF b = <<>> THEN FALSE
    ELSE IF a = <<>> THEN TRUE
    ELSE IF Head(a) # Head(b) THEN CodePoint(Head(a)) < CodePoint(Head(b))
    ELSE StrLess(Tail(a), Tail(b))

\* sorted(...) of a set of names
Sorted(names) ==
    [k \in 1..Cardinality(names) |->
        CHOOSE n \in names : Cardinality({m \in names : StrLess(m, n)}) = k - 1]

\* the orders in which glob may list the entries of a directory
Listings(ids) ==
    {l \in [1..Cardinality(ids) -> ids] :
        \A i, j \in 1..Cardinality(ids) : l[i] = l[j] => i = j}

IngestIdle ==
    /\ ing_pc = "idle"
    /\ surah_dirs = <<>>
    /\ dir_idx = 0
    /\ text_files = <<>>
    /\ file_idx = 0
    /\ uploaded_keys = <<>>
    /\ uploaded_count = 0
    /\ skipped_count = 0
    /\ upload_calls = <<>>
    /\ store = <<>>
    /\ jobs = <<>>
    /\ outcome = NoDirs

\* `for surah_dir in surah_dirs` moves on, or the list is exhausted
NextDir ==
    /\ dir_idx' = dir_idx + 1
    /\ ing_pc' = IF dir_idx + 1 <= Len(surah_dirs) THEN "dir" ELSE "done"

\* credentials, the sections directory and the sorted list of its surah-*
\* directories; with none the run returns
StartIngest ==
    /\ ing_pc = "start"
    /\ surah_dirs' = Sorted(DOMAIN output)
    /\ dir_idx' = 1
    /\ ing_pc' = IF DOMAIN output = {} THEN "done" ELSE "dir"
    /\ UNCHANGED <<text_files, file_idx, uploaded_keys, uploaded_count,
                   skipped_count, upload_calls, store, jobs, outcome>>
    /\ UNCHANGED outsideIngest

\* text_files = list(surah_dir.glob("*.txt")); `if not text_files: continue`
EnterDir ==
    /\ ing_pc = "dir"
    /\ LET d == surah_dirs[dir_idx] IN
       \E l \in Listings(DOMAIN output[d]) :
          /\ text_files' = l
          /\ IF l = <<>>
             THEN /\ outcome' = [outcome EXCEPT ![d] = Append(@, "NoArtifacts")]
                  /\ NextDir
                  /\ UNCHANGED <<file_idx, uploaded_keys, uploaded_count,
                                 skipped_count>>
             ELSE /\ outcome' = [outcome EXCEPT ![d] = Append(@, "Uploading")]
                  /\ uploaded_keys' = <<>>
                  /\ uploaded_count' = 0
                  /\ skipped_count' = 0
                  /\ file_idx' = 1
                  /\ ing_pc' = "upload"
                  /\ UNCHANGED dir_idx
    /\ UNCHANGED <<surah_dirs, upload_calls, store, jobs>>
    /\ UNCHANGED outsideIngest

\* `for text_file in text_files` moves on, or the loop ends
NextFile ==
    /\ file_idx' = file_idx + 1
    /\ ing_pc' = IF file_idx + 1 <= Len(text_files) THEN "upload" ELSE "batch"

\* skipped_count += 1
Skipped ==
    /\ skipped_count' = skipped_count + 1
    /\ UNCHANGED <<uploaded_keys, uploaded_count>>

\* BatchPayloadItemManagedFile(key=..., file_name=..., config=IngestJobConfig(metadata=...))
BatchItem(key, id, metadata) ==
    [key |-> key, file_name |-> section_filename(id), metadata |-> metadata]

\* uploaded_keys.append(...); uploaded_count += 1
Collected(item) ==
    /\ uploaded_keys' = Append(uploaded_keys, item)
    /\ uploaded_count' = uploaded_count + 1
    /\ UNCHANGED skipped_count

UploadFileMissingUncounted ==
    /\ ing_pc = "upload"
    /\ LET d == surah_dirs[dir_idx]
           id == text_files[file_idx]
           file == output[d][id]
           key == Len(upload_calls) + 1
       IN  \* `if not metadata_file.exists()`
           \/ /\ file.meta = NoMeta
              /\ UNCHANGED <<uploaded_keys, uploaded_count, skipped_count>>
              /\ UNCHANGED <<upload_calls, store>>
           \* reading the two files raises
           \/ /\ file.meta # NoMeta
              /\ Skipped
              /\ UNCHANGED <<upload_calls, store>>
           \* client.uploads.create raises, or the PUT is refused
           \/ /\ file.meta # NoMeta
              /\ upload_calls' = Append(upload_calls, <<d, id>>)
              /\ Skipped
              /\ UNCHANGED store
           \/ /\ file.meta # NoMeta
              /\ upload_calls' = Append(upload_calls, <<d, id>>)
              /\ store' = (key :> [dir |-> d, id |-> id, content |-> file.txt]) @@ store
              /\ Collected(BatchItem(key, id, file.meta))
    /\ NextFile
    /\ UNCHANGED <<surah_dirs, dir_idx, text_files, jobs, outcome>>
    /\ UNCHANGED outsideIngest

UploadFileKeepsFailed ==
    /\ ing_pc = "upload"
    /\ LET d == surah_dirs[dir_idx]
           id == text_files[file_idx]
           file == output[d][id]
           key == Len(upload_calls) + 1
       IN  \* `if not metadata_file.exists()`
           \/ /\ file.meta = NoMeta
              /\ Skipped
              /\ UNCHANGED <<upload_calls, store>>
           \* reading the two files raises
           \/ /\ file.meta # NoMeta
              /\ Skipped
              /\ UNCHANGED <<upload_calls, store>>
           \* client.uploads.create raises, or the PUT is refused
           \/ /\ file.meta # NoMeta
              /\ upload_calls' = Append(upload_calls, <<d, id>>)
              /\ Collected(BatchItem(key, id, file.meta))
              /\ UNCHANGED store
           \/ /\ file.meta # NoMeta
              /\ upload_calls' = Append(upload_calls, <<d, id>>)
              /\ store' = (key :> [dir |-> d, id |-> id, content |-> file.txt]) @@ store
              /\ Collected(BatchItem(key, id, file.meta))
    /\ NextFile
    /\ UNCHANGED <<surah_dirs, dir_idx, text_files, jobs, outcome>>
    /\ UNCHANGED outsideIngest

\* one pass of the loop over text_files: the sidecar test, then the reads, the
\* upload handshake and the PUT inside try/except
UploadFile ==
    /\ ing_pc = "upload"
    /\ LET d == surah_dirs[dir_idx]
           id == text_files[file_idx]
           file == output[d][id]
           key == Len(upload_calls) + 1
       IN  \* `if not metadata_file.exists()`
           \/ /\ file.meta = NoMeta
              /\ Skipped
              /\ UNCHANGED <<upload_calls, store>>
           \* reading the two files raises
           \/ /\ file.meta # NoMeta
              /\ Skipped
              /\ UNCHANGED <<upload_calls, store>>
           \* client.uploads.create raises, or the PUT is refused
           \/ /\ file.meta # NoMeta
              /\ upload_calls' = Append(upload_calls, <<d, id>>)
              /\ Skipped
              /\ UNCHANGED store
           \/ /\ file.meta # NoMeta
              /\ upload_calls' = Append(upload_calls, <<d, id>>)
              /\ store' = (key :> [dir |-> d, id |-> id, content |-> file.txt]) @@ store
              /\ Collected(BatchItem(key, id, file.meta))
    /\ NextFile
    /\ UNCHANGED <<surah_dirs, dir_idx, text_files, jobs, outcome>>
    /\ UNCHANGED outsideIngest

CloseUploadsAlwaysSubmits ==
    /\ ing_pc = "batch"
    /\ outcome' = [outcome EXCEPT ![surah_dirs[dir_idx]] = Append(@, "JobSubmitting")]
    /\ ing_pc' = "job"
    /\ UNCHANGED <<surah_dirs, dir_idx, text_files, file_idx, uploaded_keys,
                   uploaded_count, skipped_count, upload_calls, store, jobs>>
    /\ UNCHANGED outsideIngest

\* `if not uploaded_keys: continue`
CloseUploads ==
    /\ ing_pc = "batch"
    /\ IF uploaded_keys = <<>>
       THEN /\ outcome' = [outcome EXCEPT ![surah_dirs[dir_idx]] = Append(@, "Abandoned")]
            /\ NextDir
       ELSE /\ outcome' = [outcome EXCEPT ![surah_dirs[dir_idx]] = Append(@, "JobSubmitting")]
            /\ ing_pc' = "job"
            /\ UNCHANGED dir_idx
    /\ UNCHANGED <<surah_dirs, text_files, file_idx, uploaded_keys,
                   uploaded_count, skipped_count, upload_calls, store, jobs>>
    /\ UNCHANGED outsideIngest

\* client.ingest_jobs.create(payload=BatchPayload(items=uploaded_keys), ...)
JobCall(d, created) ==
    [name |-> TafsirName \o <<"-">> \o d, items |-> uploaded_keys, created |-> created]

CreateJobPropagating ==
    /\ ing_pc = "job"
    /\ LET d == surah_dirs[dir_idx] IN
       \/ /\ jobs' = Append(jobs, JobCall(d, TRUE))
          /\ outcome' = [outcome EXCEPT ![d] = Append(@, "JobCreated")]
          /\ NextDir
       \/ /\ jobs' = Append(jobs, JobCall(d, FALSE))
          /\ outcome' = [outcome EXCEPT ![d] = Append(@, "JobFailed")]
          /\ ing_pc' = "aborted"
          /\ UNCHANGED dir_idx
    /\ UNCHANGED <<surah_dirs, text_files, file_idx, uploaded_keys,
                   uploaded_count, skipped_count, upload_calls, store>>
    /\ UNCHANGED outsideIngest

\* the job creation inside try/except: created, or the failure is printed
CreateJob ==
    /\ ing_pc = "job"
    /\ LET d == surah_dirs[dir_idx] IN
       \/ /\ jobs' = Append(jobs, JobCall(d, TRUE))
          /\ outcome' = [outcome EXCEPT ![d] = Append(@, "JobCreated")]
       \/ /\ jobs' = Append(jobs, JobCall(d, FALSE))
          /\ outcome' = [outcome EXCEPT ![d] = Append(@, "JobFailed")]
    /\ NextDir
    /\ UNCHANGED <<surah_dirs, text_files, file_idx, uploaded_keys,
                   uploaded_count, skipped_count, upload_calls, store>>
    /\ UNCHANGED outsideIngest

\* the directories Materialize has left: any of the surahs, each with some of
\* its sections, a section's sidecar there or not
IngestSurahs == {2, 10}

SectionIds(s) == {safe_id(FormatKey(s, a)) : a \in 1..MaxFiles}

SampleArtifacts(s, id) ==
    {Artifact(<<"Body">>, NoMeta),
     Artifact(<<"Body">>,
              [tafsir_name |-> TafsirName, surah |-> s, group_ayah_key |-> id])}

SampleDirs(s) ==
    UNION {{f \in [ids -> UNION {SampleArtifacts(s, id) : id \in ids}] :
               \A id \in ids : f[id] \in SampleArtifacts(s, id)} :
           ids \in SUBSET SectionIds(s)}

SampleOutputs ==
    UNION {{o \in [{surah_dir_name(s) : s \in ss} ->
                      UNION {SampleDirs(s) : s \in ss}] :
               \A s \in ss : o[surah_dir_name(s)] \in SampleDirs(s)} :
           ss \in SUBSET IngestSurahs}

IngestInit ==
    /\ output \in SampleOutputs
    /\ ing_pc = "start"
    /\ surah_dirs = <<>>
    /\ dir_idx = 0
    /\ text_files = <<>>
    /\ file_idx = 0
    /\ uploaded_keys = <<>>
    /\ uploaded_count = 0
    /\ skipped_count = 0
    /\ upload_calls = <<>>
    /\ store = <<>>
    /\ jobs = <<>>
    /\ outcome = [d \in DOMAIN output |-> <<"Discovered">>]

IngestNext == StartIngest \/ EnterDir \/ UploadFile \/ CloseUploads \/ CreateJob

\* ------------------------------------------------------------------------
\* Duplicate Reconciler (deduplicate_agentset)
\* ------------------------------------------------------------------------
\* a document of the backend listing; an empty name stands for a missing one
Doc(id, name, created_at) == [id |-> id, name |-> name, created_at |-> created_at]

\* name = doc.name if doc.name else "unnamed"
Unnamed == <<"u", "n", "n", "a", "m", "e", "d">>

group_name(doc) == IF doc.name = <<>> THEN Unnamed ELSE doc.name

\* by_name[name], the entries of a name in the order they were accumulated
by_name(docs, name) == SelectSeq(docs, LAMBDA d : group_name(d) = name)

\* sorted(docs, key=lambda d: d.created_at): entries of equal age keep their order
RECURSIVE InsertByCreated(_, _)
InsertByCreated(d, s) ==
    IF s = <<>> THEN <<d>>
    ELSE IF d.created_at < Head(s).created_at THEN <<d>> \o s
    ELSE <<Head(s)>> \o InsertByCreated(d, Tail(s))

RECURSIVE sorted_by_created_at(_)
sorted_by_created_at(docs) ==
    IF docs = <<>> THEN <<>>
    ELSE InsertByCreated(docs[Len(docs)],
                         sorted_by_created_at(SubSeq(docs, 1, Len(docs) - 1)))

\* client.documents.list(cursor=cursor, per_page=...): a page of the listing
ListPage(at) ==
    LET last == IF at + PageSize < Len(corpus) THEN at + PageSize ELSE Len(corpus)
    IN  [data |-> SubSeq(corpus, at + 1, last),
         has_more |-> last < Len(corpus),
         next_cursor |-> last]

\* no dry run has gone before
NoPreview == [taken |-> FALSE, report |-> <<>>]

ReconcilerIdle ==
    /\ corpus = <<>>
    /\ dry_run = TRUE
    /\ keep = "oldest"
    /\ rec_pc = "idle"
    /\ all_docs = <<>>
    /\ cursor = 0
    /\ page = 1
    /\ duplicates = <<>>
    /\ grp_idx = 0
    /\ delete_docs = <<>>
    /\ del_idx = 0
    /\ report = <<>>
    /\ delete_calls = <<>>
    /\ deleted_count = 0
    /\ preview = NoPreview

FetchPageOnce ==
    /\ rec_pc = "fetch"
    /\ all_docs' = all_docs \o ListPage(cursor).data
    /\ rec_pc' = "group"
    /\ UNCHANGED <<cursor, page>>
    /\ UNCHANGED <<corpus, dry_run, keep, duplicates, grp_idx, delete_docs, del_idx,
                   report, delete_calls, deleted_count>>
    /\ UNCHANGED preview
    /\ UNCHANGED outsideReconciler

\* one pass of `while True`: a page is fetched and accumulated
FetchPage ==
    /\ rec_pc = "fetch"
    /\ LET response == ListPage(cursor) IN
       IF response.data = <<>>
       THEN /\ rec_pc' = "group"
            /\ UNCHANGED <<all_docs, cursor, page>>
       ELSE /\ all_docs' = all_docs \o response.data
            /\ IF response.has_more
               THEN /\ cursor' = response.next_cursor
                    /\ page' = page + 1
                    /\ UNCHANGED rec_pc
               ELSE /\ rec_pc' = "group"
                    /\ UNCHANGED <<cursor, page>>
    /\ UNCHANGED <<corpus, dry_run, keep, duplicates, grp_idx, delete_docs, del_idx,
                   report, delete_calls, deleted_count>>
    /\ UNCHANGED preview
    /\ UNCHANGED outsideReconciler

\* the name groups, those with more than one entry, sorted by name
GroupDocs ==
    /\ rec_pc = "group"
    /\ LET names == {group_name(all_docs[i]) : i \in 1..Len(all_docs)}
           dups == {n \in names : Len(by_name(all_docs, n)) > 1}
           order == Sorted(dups)
       IN  /\ duplicates' = [k \in 1..Len(order) |->
                                [name |-> order[k], docs |-> by_name(all_docs, order[k])]]
           /\ IF dups = {}
              THEN rec_pc' = "done" /\ grp_idx' = 0
              ELSE rec_pc' = "decide" /\ grp_idx' = 1
    /\ UNCHANGED <<corpus, dry_run, keep, all_docs, cursor, page, delete_docs,
                   del_idx, report, delete_calls, deleted_count>>
    /\ UNCHANGED preview
    /\ UNCHANGED outsideReconciler

\* the loop over the duplicate groups moves on, or ends
NextGroup ==
    /\ grp_idx' = grp_idx + 1
    /\ rec_pc' = IF grp_idx + 1 <= Len(duplicates) THEN "decide" ELSE "done"

Ids(docs) == [i \in 1..Len(docs) |-> docs[i].id]

KeepDocFirst(docs_sorted) == docs_sorted[1]

\* keep_doc of a group
KeepDoc(docs_sorted) ==
    IF keep = "oldest" THEN docs_sorted[1] ELSE docs_sorted[Len(docs_sorted)]

\* delete_docs of a group
DeleteDocs(docs_sorted) ==
    IF keep = "oldest" THEN Tail(docs_sorted)
    ELSE SubSeq(docs_sorted, 1, Len(docs_sorted) - 1)

DecideGroupIgnoringDryRun ==
    /\ rec_pc = "decide"
    /\ LET docs_sorted == sorted_by_created_at(duplicates[grp_idx].docs) IN
       /\ report' = Append(report, [name |-> duplicates[grp_idx].name,
                                    keep |-> KeepDoc(docs_sorted).id,
                                    flagged |-> <<>>])
       /\ delete_docs' = DeleteDocs(docs_sorted)
       /\ del_idx' = 1
       /\ rec_pc' = "delete"
       /\ UNCHANGED grp_idx
    /\ UNCHANGED <<corpus, dry_run, keep, all_docs, cursor, page, duplicates,
                   delete_calls, deleted_count>>
    /\ UNCHANGED preview
    /\ UNCHANGED outsideReconciler

DecideGroupDeleteUnsorted ==
    /\ rec_pc = "decide"
    /\ LET docs_sorted == sorted_by_created_at(duplicates[grp_idx].docs)
           docs == duplicates[grp_idx].docs
       IN
       IF dry_run
       THEN /\ report' = Append(report, [name |-> duplicates[grp_idx].name,
                                         keep |-> KeepDoc(docs_sorted).id,
                                         flagged |-> Ids(DeleteDocs(docs_sorted))])
            /\ NextGroup
            /\ UNCHANGED <<delete_docs, del_idx>>
       ELSE /\ report' = Append(report, [name |-> duplicates[grp_idx].name,
                                         keep |-> KeepDoc(docs).id,
                                         flagged |-> <<>>])
            /\ delete_docs' = DeleteDocs(docs)
            /\ del_idx' = 1
            /\ rec_pc' = "delete"
            /\ UNCHANGED grp_idx
    /\ UNCHANGED <<corpus, dry_run, keep, all_docs, cursor, page, duplicates,
                   delete_calls, deleted_count>>
    /\ UNCHANGED preview
    /\ UNCHANGED outsideReconciler

\* one pass of the loop over the duplicate groups: the entries sorted by age,
\* the one to keep and the others; in dry-run mode they are printed
DecideGroup ==
    /\ rec_pc = "decide"
    /\ LET docs_sorted == sorted_by_created_at(duplicates[grp_idx].docs) IN
       IF dry_run
       THEN /\ report' = Append(report, [name |-> duplicates[grp_idx].name,
                                         keep |-> KeepDoc(docs_sorted).id,
                                         flagged |-> Ids(DeleteDocs(docs_sorted))])
            /\ NextGroup
            /\ UNCHANGED <<delete_docs, del_idx>>
       ELSE /\ report' = Append(report, [name |-> duplicates[grp_idx].name,
                                         keep |-> KeepDoc(docs_sorted).id,
                                         flagged |-> <<>>])
            /\ delete_docs' = DeleteDocs(docs_sorted)
            /\ del_idx' = 1
            /\ rec_pc' = "delete"
            /\ UNCHANGED grp_idx
    /\ UNCHANGED <<corpus, dry_run, keep, all_docs, cursor, page, duplicates,
                   delete_calls, deleted_count>>
    /\ UNCHANGED preview
    /\ UNCHANGED outsideReconciler

DeleteDuplicateStopsOnFailure ==
    /\ rec_pc = "delete"
    /\ LET doc == delete_docs[del_idx] IN
       \/ /\ corpus' = SelectSeq(corpus, LAMBDA d : d.id # doc.id)
          /\ delete_calls' = Append(delete_calls, [id |-> doc.id, deleted |-> TRUE])
          /\ deleted_count' = deleted_count + 1
          /\ IF del_idx < Len(delete_docs)
             THEN /\ del_idx' = del_idx + 1
                  /\ UNCHANGED <<rec_pc, grp_idx>>
             ELSE /\ NextGroup
                  /\ UNCHANGED del_idx
       \/ /\ delete_calls' = Append(delete_calls, [id |-> doc.id, deleted |-> FALSE])
          /\ rec_pc' = "done"
          /\ UNCHANGED <<corpus, deleted_count, del_idx, grp_idx>>
    /\ UNCHANGED <<dry_run, keep, all_docs, cursor, page, duplicates, delete_docs,
                   report>>
    /\ UNCHANGED preview
    /\ UNCHANGED outsideReconciler

\* one pass of `for doc in delete_docs`: the delete call inside try/except
DeleteDuplicate ==
    /\ rec_pc = "delete"
    /\ LET doc == delete_docs[del_idx] IN
       \/ /\ corpus' = SelectSeq(corpus, LAMBDA d : d.id # doc.id)
          /\ delete_calls' = Append(delete_calls, [id |-> doc.id, deleted |-> TRUE])
          /\ deleted_count' = deleted_count + 1
       \/ /\ delete_calls' = Append(delete_calls, [id |-> doc.id, deleted |-> FALSE])
          /\ UNCHANGED <<corpus, deleted_count>>
    /\ IF del_idx < Len(delete_docs)
       THEN /\ del_idx' = del_idx + 1
            /\ UNCHANGED <<rec_pc, grp_idx>>
       ELSE /\ NextGroup
            /\ UNCHANGED del_idx
    /\ UNCHANGED <<dry_run, keep, all_docs, cursor, page, duplicates, delete_docs,
                   report>>
    /\ UNCHANGED preview
    /\ UNCHANGED outsideReconciler

\* documents of the corpus: names (one missing), creation times, ids
DocNames == {<<"x">>, <<"y">>, <<>>}

Stamps == {1, 2, 3}

Listing(n) ==
    {[i \in 1..n |-> Doc(i, f[i][1], f[i][2])] : f \in [1..n -> DocNames \X Stamps]}

\* listings with two duplicate groups, their entries interleaved
TwoGroupListings ==
    {[i \in 1..4 |-> Doc(i, IF i \in {1, 3} THEN <<"x">> ELSE <<"y">>, f[i])] :
        f \in [1..4 -> {1, 2}]}

ReconcilerInit ==
    /\ corpus \in UNION {Listing(n) : n \in 0..MaxDocs} \cup TwoGroupListings
    /\ dry_run \in BOOLEAN
    /\ keep \in {"oldest", "newest"}
    /\ rec_pc = "fetch"
    /\ all_docs = <<>>
    /\ cursor = 0
    /\ page = 1
    /\ duplicates = <<>>
    /\ grp_idx = 0
    /\ delete_docs = <<>>
    /\ del_idx = 0
    /\ report = <<>>
    /\ delete_calls = <<>>
    /\ deleted_count = 0
    /\ preview = NoPreview

\* after a dry run the command is run again with --no-dry-run, same policy
RunNoDryRun ==
    /\ rec_pc = "done"
    /\ dry_run
    /\ dry_run' = FALSE
    /\ preview' = [taken |-> TRUE, report |-> report]
    /\ rec_pc' = "fetch"
    /\ all_docs' = <<>>
    /\ cursor' = 0
    /\ page' = 1
    /\ duplicates' = <<>>
    /\ grp_idx' = 0
    /\ delete_docs' = <<>>
    /\ del_idx' = 0
    /\ report' = <<>>
    /\ delete_calls' = <<>>
    /\ deleted_count' = 0
    /\ UNCHANGED <<corpus, keep>>
    /\ UNCHANGED outsideReconciler

ReconcilerNext ==
    FetchPage \/ GroupDocs \/ DecideGroup \/ DeleteDuplicate \/ RunNoDryRun

Init ==
    /\ PublisherInit
    /\ CodecIdle /\ ExtractorIdle /\ MaterializeIdle /\ IngestIdle /\ ReconcilerIdle

Next ==
    \/ BuildDocument
    \/ WriteSnapshot
    \/ DeleteDocument
    \/ CreateDocument
    \/ NextRun
    \/ NextRunNewExport

Spec == Init /\ [][Next]_vars

\* the same runs, any of which may be terminated between the delete call and
\* the create call
NextKilled ==
    \/ BuildDocument
    \/ WriteSnapshot
    \/ DeleteDocument
    \/ CreateDocument
    \/ KillBeforeCreate
    \/ NextRun
    \/ NextRunNewExport

SpecKilled == Init /\ [][NextKilled]_vars

\* ------------------------------------------------------------------------
\* Key Codec alone
\* ------------------------------------------------------------------------
PublisherIdle ==
    /\ db = [s \in Surahs |-> <<>>]
    /\ onDuplicate = "reject"
    /\ backend = <<>>
    /\ PublisherStart

InitCodec ==
    /\ CodecInit
    /\ PublisherIdle /\ ExtractorIdle /\ MaterializeIdle /\ IngestIdle /\ ReconcilerIdle

SpecCodec == InitCodec /\ [][CodecNext]_vars

\* ------------------------------------------------------------------------
\* Section Model Builder alone: one pass of the row loops over each surah
\* ------------------------------------------------------------------------
InitBuilder ==
    /\ \E rows \in RowSeqs(BuilderRows(SurahRange[1]), MaxSections) :
           db = [s \in Surahs |-> IF s = SurahRange[1] THEN rows ELSE <<>>]
    /\ onDuplicate = "reject"
    /\ backend = <<>>
    /\ PublisherStart
    /\ CodecIdle
    /\ ExtractorIdle
    /\ MaterializeIdle
    /\ IngestIdle
    /\ ReconcilerIdle

NextBuilder == BuildDocument

SpecBuilder == InitBuilder /\ [][NextBuilder]_vars

\* ------------------------------------------------------------------------
\* Markup Extractor alone
\* ------------------------------------------------------------------------
InitExtractor ==
    /\ ExtractorInit
    /\ CodecIdle /\ PublisherIdle /\ MaterializeIdle /\ IngestIdle /\ ReconcilerIdle

SpecExtractor == InitExtractor /\ [][ExtractorNext]_vars

\* ------------------------------------------------------------------------
\* Ingest alone, over what Materialize may have left on disk
\* ------------------------------------------------------------------------
InitIngest ==
    /\ IngestInit
    /\ MaterializeOff /\ CodecIdle /\ PublisherIdle /\ ExtractorIdle /\ ReconcilerIdle

SpecIngest == InitIngest /\ [][IngestNext]_vars

\* ------------------------------------------------------------------------
\* Materialize alone: two runs over the same rows
\* ------------------------------------------------------------------------
InitMaterialize ==
    /\ MaterializeInit
    /\ CodecIdle /\ PublisherIdle /\ ExtractorIdle /\ IngestIdle /\ ReconcilerIdle

SpecMaterialize == InitMaterialize /\ [][MaterializeNext]_vars

\* ------------------------------------------------------------------------
\* Duplicate Reconciler alone
\* ------------------------------------------------------------------------
InitReconciler ==
    /\ ReconcilerInit
    /\ CodecIdle /\ PublisherIdle /\ ExtractorIdle /\ MaterializeIdle /\ IngestIdle

SpecReconciler == InitReconciler /\ [][ReconcilerNext]_vars

\* ========================================================================
\* Properties
\* ========================================================================
BackendCalls ==
    {"delete:ok", "delete:notfound", "delete:error",
     "create:ok", "create:conflict", "create:error"}

DeleteEvents == {"delete:ok", "delete:notfound", "delete:error"}

CreateEvents == {"create:ok", "create:conflict", "create:error"}

Has(l, events) == \E i \in 1..Len(l) : l[i] \in events

RunEnded == pc \in {"done", "aborted"}

\* C1: when convert_to_vectara has been run again over the same range and the
\* same rows and no backend call met a transport fault, the corpus is as the
\* previous run left it, and every surah the run set out to publish has its
\* document in the corpus, carrying what the run built (the payload it has
\* just written to the surah's snapshot file).
C1_RepublishLeavesLatestPayload ==
    (unchanged /\ RunEnded /\ ~faulted) =>
        /\ backend = afterPrev
        /\ \A s \in Surahs :
              Has(log[s], {"snapshot"}) =>
                  /\ core_doc_id(s) \in DOMAIN backend
                  /\ backend[core_doc_id(s)] = snapshots[json_file_path(s)]

\* C2: once a run has ended, every surah that follows one whose create call
\* failed has been processed by that run all the same.
C2_CreateFailureDoesNotAbort ==
    RunEnded =>
        \A s \in Surahs :
            Has(log[s], {"create:conflict", "create:error"}) =>
                \A t \in Surahs : t > s => log[t] # <<>>

\* C3: for every surah with document parts, the snapshot file is written
\* before the run's first backend call for that surah, and the file is there
\* however the delete and create calls end.
C3_SnapshotBeforeBackendCalls ==
    \A s \in Surahs :
        /\ \A i \in 1..Len(log[s]) :
              log[s][i] \in BackendCalls =>
                  /\ \E j \in 1..(i - 1) : log[s][j] = "snapshot"
                  /\ snapshots[json_file_path(s)] # NoFile
        /\ (Has(log[s], {"built"}) /\ ~(pc = "snapshot" /\ surah = s)) =>
              /\ Has(log[s], {"snapshot"})
              /\ snapshots[json_file_path(s)] # NoFile
        /\ (surah = s /\ pc \in {"delete", "create"}) =>
              snapshots[json_file_path(s)] = core_doc(s, v_ayahs)

C3_Witness ==
    \E s \in Surahs :
        /\ log[s] = <<"built", "snapshot", "delete:error", "create:error">>
        /\ snapshots[json_file_path(s)] = core_doc(s, v_ayahs)

\* C4: whatever the delete call's outcome, the create call is what the run
\* does next for that surah, and no exception of the delete call leaves
\* convert_to_vectara.
C4_CreateFollowsDelete ==
    /\ raised # "delete"
    /\ \A s \in Surahs : \A i \in 1..Len(log[s]) :
          log[s][i] \in DeleteEvents =>
              IF i < Len(log[s]) THEN log[s][i + 1] \in CreateEvents
              ELSE pc = "create" /\ surah = s

C4_Witness ==
    /\ Has(log[SurahRange[1]], {"delete:notfound"})
    /\ Has(log[SurahRange[1]], CreateEvents)
    /\ Has(log[SurahRange[1] + 1], {"delete:error"})
    /\ Has(log[SurahRange[1] + 1], CreateEvents)

\* a surah none of whose rows yields a non-empty heading or paragraph text
NothingToExtract(rows) ==
    \A i \in 1..Len(rows) :
        /\ ~rows[i].text.null
        /\ \A j \in 1..Len(rows[i].text.elems) :
              rows[i].text.elems[j].tag \in StructuralTags =>
                  rows[i].text.elems[j].text = <<>>

C6_MalformedSectionDoesNotAbort == ~(pc = "aborted" /\ raised = "ValueError")

\* --- the reference list of C7 ---
RefKeyPairs == Surahs \X SampleAyahs

IsVerseKey(k) == \E p \in RefKeyPairs : FormatKey(p[1], p[2]) = k

\* chapter * 1000 + verse of a verse key
RefOrder(k) ==
    LET p == CHOOSE q \in RefKeyPairs : FormatKey(q[1], q[2]) = k
    IN  p[1] * 1000 + p[2]

\* the structural-mode strings of a row, in extraction order
RefStrings(row) ==
    IF row.text.null THEN <<>> ELSE split_html_by_tags(row.text).val

\* (row, string) positions that yield a Fragment
RefSlots(rows) ==
    {q \in UNION {{i} \X (1..Len(RefStrings(rows[i]))) : i \in 1..Len(rows)} :
        RefStrings(rows[q[1]])[q[2]] # <<>>}

SlotBefore(a, b) == a[1] < b[1] \/ (a[1] = b[1] /\ a[2] < b[2])

RefFragments(rows) ==
    LET slots == RefSlots(rows)
        rank(q) == 1 + Cardinality({r \in slots : SlotBefore(r, q)})
    IN  [k \in 1..Cardinality(slots) |->
            LET q == CHOOSE r \in slots : rank(r) = k
                row == rows[q[1]]
            IN  [metadata |-> [ayah_key |-> row.ayah_key,
                               group_ayah_key |-> row.group_ayah_key,
                               from_ayah |-> row.from_ayah,
                               to_ayah |-> row.to_ayah,
                               from_ayah_int |-> RefOrder(row.from_ayah),
                               to_ayah_int |-> RefOrder(row.to_ayah),
                               ayah_keys |-> row.ayah_keys],
                 text |-> RefStrings(row)[q[2]]]]

\* rows with a commentary text and, where they yield a Fragment, verse keys
WellFormedRows(rows) ==
    \A i \in 1..Len(rows) :
        /\ ~rows[i].text.null
        /\ (\E q \in RefSlots(rows) : q[1] = i) =>
              IsVerseKey(rows[i].from_ayah) /\ IsVerseKey(rows[i].to_ayah)

C8_OrderPreserved ==
    (cin.kind = "pair" /\ cstep >= 1) =>
        /\ out_int.exc = "none"
        /\ out_int_b.exc = "none"
        /\ (cin.surah < cin.surahB
               \/ (cin.surah = cin.surahB /\ cin.ayah < cin.ayahB)) =>
              out_int.val < out_int_b.val

C8_Witness ==
    /\ cin.kind = "pair"
    /\ cstep >= 1
    /\ cin.surah < cin.surahB
    /\ cin.ayah = 999
    /\ cin.ayahB = 1
    /\ out_int.val < out_int_b.val

\* C9: converting a valid verse key to its integer and back returns the key,
\* and converting an integer x >= 0 to its key and back returns x.
C9_RoundTrips ==
    /\ (cin.kind = "pair" /\ cstep = 2) => out_key = cin.key
    /\ (cin.kind = "int" /\ cstep = 2) => out_int = Ok(cin.int)

C9_Witness ==
    /\ cin.kind = "pair"
    /\ cstep = 2
    /\ cin.key = <<"1", "1", "4", ":", "9", "9", "9">>
    /\ out_int.val = 114999
    /\ out_key = cin.key

\* the text of an integer as int() reads one: optional white space around an
\* optional sign followed by decimal digits
IsIntegerText(t) ==
    \E i \in 1..Len(t) : \E j \in i..Len(t) :
        /\ \A k \in 1..(i - 1) : t[k] = " "
        /\ \A k \in (j + 1)..Len(t) : t[k] = " "
        /\ \/ \A k \in i..j : IsDigit(t[k])
           \/ /\ t[i] \in {"-", "+"}
              /\ i < j
              /\ \A k \in (i + 1)..j : IsDigit(t[k])

Separators(k) == {i \in 1..Len(k) : k[i] = ":"}

NotAVerseKey(k) ==
    \/ Cardinality(Separators(k)) # 1
    \/ LET i == CHOOSE x \in Separators(k) : TRUE
       IN  \/ ~IsIntegerText(SubSeq(k, 1, i - 1))
           \/ ~IsIntegerText(SubSeq(k, i + 1, Len(k)))

\* C10: a string without exactly one ":" or with a side that is not an
\* integer makes ayah_key_to_int raise ValueError and return nothing, in the
\* converter and in the script.
C10_MalformedKeyRaises ==
    (cin.kind = "raw" /\ NotAVerseKey(cin.key)) =>
        /\ cstep >= 1 => out_int = Raise("ValueError")
        /\ out_qul # Pending => out_qul = Raise("ValueError")

C10_Witness ==
    /\ cin.kind = "raw"
    /\ cin.key = <<"1", ":", "1", ":", "1">>
    /\ out_int.exc = "ValueError"
    /\ out_qul.exc = "ValueError"

\* C11: a null or empty markup yields an empty result and no error in both
\* modes: split_html_by_tags returns the empty sequence, and the plain-text
\* path takes the input as empty text.
C11_NullOrEmptyYieldsEmpty ==
    (html_in.null \/ html_in.elems = <<>>) =>
        /\ split_elements # Pending => split_elements = Ok(<<>>)
        /\ plain_text # NoText =>
              plain_text.skip \in {"no_html", "empty_text"} /\ plain_text.text = <<>>

\* --- the reference sequence of C12 ---
\* the places of the nodes of a tree: <<i>> is the i-th top-level node,
\* <<i, j>> its j-th child, and so on
RECURSIVE Paths(_)
Paths(elems) ==
    UNION {{<<i>>} \cup {<<i>> \o q : q \in Paths(elems[i].kids)} :
              i \in 1..Len(elems)}

RECURSIVE NodeAt(_, _)
NodeAt(elems, path) ==
    IF Len(path) = 1 THEN elems[path[1]]
    ELSE NodeAt(elems[path[1]].kids, Tail(path))

\* document order: an element comes before what it contains, and before what
\* follows it
DocBefore(a, b) ==
    \/ Len(a) < Len(b) /\ SubSeq(b, 1, Len(a)) = a
    \/ \E k \in 1..Len(a) :
          /\ k <= Len(b)
          /\ SubSeq(a, 1, k - 1) = SubSeq(b, 1, k - 1)
          /\ a[k] < b[k]

InDocOrder(elems, places) ==
    LET rank(q) == 1 + Cardinality({r \in places : DocBefore(r, q)})
    IN  [k \in 1..Cardinality(places) |->
            get_text(NodeAt(elems, CHOOSE r \in places : rank(r) = k))]

StructuralPlaces(elems) ==
    {q \in Paths(elems) : NodeAt(elems, q).tag \in {"h1", "h2", "p"}}

\* C12 as stated: split_html_by_tags returns, in document order, the text of
\* the h1, h2 and p elements that have a text; other tags add no entry.
C12_StructuralTextsWithoutEmpty ==
    (~html_in.null /\ split_elements # Pending) =>
        split_elements =
            Ok(InDocOrder(html_in.elems,
                   {q \in StructuralPlaces(html_in.elems) :
                       get_text(NodeAt(html_in.elems, q)) # <<>>}))

\* C12 amended: split_html_by_tags returns, in document order, the text of
\* every h1, h2 and p element, the empty text of an element without text
\* included; other tags add no entry.
C12_StructuralTexts ==
    (~html_in.null /\ split_elements # Pending) =>
        split_elements = Ok(InDocOrder(html_in.elems, StructuralPlaces(html_in.elems)))

C12_Witness ==
    /\ html_in = Markup(<<Nest("div", <<"b">>, <<El("p", <<"a">>)>>), El("h2", <<>>)>>)
    /\ split_elements = Ok(<< <<"a">>, <<>> >>)

\* --- Ingest -----------------------------------------------------------
\* the ways a surah directory can go through a run
OutcomePaths ==
    {<<"Discovered", "NoArtifacts">>,
     <<"Discovered", "Uploading", "Abandoned">>,
     <<"Discovered", "Uploading", "JobSubmitting", "JobCreated">>,
     <<"Discovered", "Uploading", "JobSubmitting", "JobFailed">>}

IsPrefix(a, b) == Len(a) <= Len(b) /\ SubSeq(b, 1, Len(a)) = a

JobName(d) == TafsirName \o <<"-">> \o d

JobCallsFor(d) == {j \in 1..Len(jobs) : jobs[j].name = JobName(d)}

\* the objects a successful PUT has stored for a directory
StoredFor(d) == {k \in DOMAIN store : store[k].dir = d}

\* C13: every surah directory goes Discovered -> Uploading -> (Abandoned |
\* JobSubmitting -> (JobCreated | JobFailed)) or Discovered -> NoArtifacts;
\* no outcome of a directory (failed uploads, a failed job submission) ends
\* the run: it goes on until every directory has its terminal outcome.
C13_EveryChapterReachesOutcome ==
    /\ ing_pc # "aborted"
    /\ ing_pc \notin {"idle", "done"} => ENABLED IngestNext
    /\ \A d \in DOMAIN output : \E q \in OutcomePaths : IsPrefix(outcome[d], q)
    /\ ing_pc = "done" => \A d \in DOMAIN output : outcome[d] \in OutcomePaths
    /\ ing_pc \in {"dir", "upload", "batch", "job"} =>
          \A k \in 1..(dir_idx - 1) : outcome[surah_dirs[k]] \in OutcomePaths

C13_Witness ==
    /\ ing_pc = "done"
    /\ DOMAIN output = {surah_dir_name(2), surah_dir_name(10)}
    /\ outcome[surah_dir_name(2)] =
          <<"Discovered", "Uploading", "JobSubmitting", "JobFailed">>
    /\ Len(upload_calls) > Cardinality(DOMAIN store)
    /\ outcome[surah_dir_name(10)] =
          <<"Discovered", "Uploading", "JobSubmitting", "JobCreated">>

\* C14: a surah directory none of whose uploads succeeded gets no call of
\* client.ingest_jobs.create.
C14_NoUploadNoJob ==
    \A d \in DOMAIN output : StoredFor(d) = {} => Cardinality(JobCallsFor(d)) = 0

C14_Witness ==
    /\ ing_pc = "done"
    /\ DOMAIN output = {surah_dir_name(2), surah_dir_name(10)}
    /\ \E i \in 1..Len(upload_calls) : upload_calls[i][1] = surah_dir_name(2)
    /\ outcome[surah_dir_name(2)] = <<"Discovered", "Uploading", "Abandoned">>
    /\ Cardinality(JobCallsFor(surah_dir_name(2))) = 0
    /\ Cardinality(JobCallsFor(surah_dir_name(10))) = 1

\* C15: once a surah directory with a successful upload has its outcome,
\* exactly one job has been submitted for it, and the job's items are the
\* stored objects of that directory, each once, with the file's name and the
\* content of its sidecar: nothing else, and none of them left out.
C15_JobItemsAreUploads ==
    \A d \in DOMAIN output :
        (outcome[d] \in OutcomePaths /\ StoredFor(d) # {}) =>
            /\ Cardinality(JobCallsFor(d)) = 1
            /\ LET items == jobs[CHOOSE j \in JobCallsFor(d) : TRUE].items IN
               /\ Len(items) = Cardinality(StoredFor(d))
               /\ {items[i] : i \in 1..Len(items)} =
                      {[key |-> k,
                        file_name |-> section_filename(store[k].id),
                        metadata |-> output[d][store[k].id].meta] :
                          k \in StoredFor(d)}
               /\ \A i \in 1..Len(items) : items[i].metadata # NoMeta
               /\ \A k \in StoredFor(d) :
                     store[k].content = output[d][store[k].id].txt

C15_Witness ==
    /\ ing_pc = "done"
    /\ DOMAIN output = {surah_dir_name(2), surah_dir_name(10)}
    /\ Cardinality(DOMAIN output[surah_dir_name(2)]) = 2
    /\ Cardinality(StoredFor(surah_dir_name(2))) = 1
    /\ Cardinality({i \in 1..Len(upload_calls) :
                       upload_calls[i][1] = surah_dir_name(2)}) = 2
    /\ Cardinality(JobCallsFor(surah_dir_name(2))) = 1
    /\ StoredFor(surah_dir_name(10)) # {}

\* C16: a text file without a sidecar gets no upload call and is counted in
\* skipped_count; when the loop over a directory's text files has ended,
\* uploaded_count + skipped_count is the number of text files in the
\* directory and uploaded_count the number of collected keys.
C16_CountsAddUp ==
    /\ \A i \in 1..Len(upload_calls) :
          output[upload_calls[i][1]][upload_calls[i][2]].meta # NoMeta
    /\ ing_pc \in {"upload", "batch", "job"} =>
          LET d == surah_dirs[dir_idx]
              seen == IF ing_pc = "upload" THEN file_idx - 1 ELSE Len(text_files)
          IN  /\ uploaded_count + skipped_count = seen
              /\ uploaded_count = Len(uploaded_keys)
              /\ skipped_count >=
                    Cardinality({i \in 1..seen : output[d][text_files[i]].meta = NoMeta})
              /\ ing_pc # "upload" =>
                    uploaded_count + skipped_count = Cardinality(DOMAIN output[d])

C16_Witness ==
    /\ ing_pc = "batch"
    /\ uploaded_count = 1
    /\ skipped_count = 1
    /\ \E id \in DOMAIN output[surah_dirs[dir_idx]] :
          output[surah_dirs[dir_idx]][id].meta = NoMeta
    /\ Len(upload_calls) = 1

\* --- Materialize ------------------------------------------------------
\* a commentary with some text that is not white space
HasVisibleText(html_text) ==
    /\ ~html_text.null
    /\ \E q \in Paths(html_text.elems) :
          \E i \in 1..Len(NodeAt(html_text.elems, q).text) :
              NodeAt(html_text.elems, q).text[i] # " "

TextRows(rows) == {i \in 1..Len(rows) : HasVisibleText(rows[i].text)}

MatKeyPairs == MatSurahs \X SampleAyahs

MatKeyPair(k) == CHOOSE q \in MatKeyPairs : FormatKey(q[1], q[2]) = k

\* "<chapter>-<verse>" of a group key
RefSafeId(k) == PyStr(MatKeyPair(k)[1]) \o <<"-">> \o PyStr(MatKeyPair(k)[2])

\* the run in progress is through with a surah
SurahMaterialized(s) ==
    mat_pc = "done" \/ (mat_pc \in {"surah", "section"} /\ mat_surah > s)

LastOfGroup(rows, g) ==
    CHOOSE i \in TextRows(rows) :
        /\ rows[i].group_ayah_key = g
        /\ \A j \in TextRows(rows) : rows[j].group_ayah_key = g => j <= i

C18_EmptySectionSkipped ==
    /\ mat_raised # "TypeError"
    /\ \A k \in 1..Len(mat_log) :
          LET e == mat_log[k]
              rows == tafsir[e.surah]
          IN  ~HasVisibleText(rows[e.idx].text) =>
                 /\ e.event \in {"no_html", "empty_text"}
                 /\ e.files = {}
                 /\ (mat_run = 1 /\ \A j \in TextRows(rows) :
                        rows[j].group_ayah_key # rows[e.idx].group_ayah_key) =>
                       RefSafeId(rows[e.idx].group_ayah_key)
                           \notin DOMAIN output[surah_dir_name(e.surah)]
                 /\ IF k < Len(mat_log)
                    THEN \/ mat_log[k + 1].surah = e.surah /\ mat_log[k + 1].idx = e.idx + 1
                         \/ mat_log[k + 1].surah > e.surah /\ e.idx = Len(rows)
                    ELSE /\ mat_pc # "aborted"
                         /\ \/ mat_pc = "section" /\ mat_surah = e.surah
                                  /\ sec_idx = e.idx + 1
                            \/ e.idx = Len(rows) /\ (mat_pc = "done" \/ mat_surah > e.surah)

C18_Witness ==
    /\ mat_pc = "done"
    /\ mat_run = 1
    /\ tafsir[MatRange[1]] = <<NullRow(MatRange[1]), BlankRow(MatRange[1])>>
    /\ tafsir[MatRange[1] + 1] = <<EmptyRow(MatRange[1] + 1), GoodRow(MatRange[1] + 1)>>
    /\ Len(mat_log) = 4
    /\ mat_log[1].event = "no_html"
    /\ mat_log[2].event = "empty_text"
    /\ mat_log[4].event = "written"
    /\ DOMAIN output[surah_dir_name(MatRange[1])] = {}

\* C19: a second run over the same range and the same rows leaves the output
\* directory as the first run left it: the same files with the same contents.
C19_MaterializeIdempotent ==
    (mat_run = 2 /\ mat_pc \in {"done", "aborted"}) => output = first_output

C19_Witness ==
    /\ mat_run = 2
    /\ mat_pc = "done"
    /\ Cardinality(DOMAIN output[surah_dir_name(MatRange[1])]) = 2
    /\ Cardinality(DOMAIN output[surah_dir_name(MatRange[1] + 1)]) = 1
    /\ output = first_output

\* ------------------------------------------------------------------------
\* Duplicate Reconciler properties
\* ------------------------------------------------------------------------
\* the entries of the backend that carry a group's name, and the names that
\* more than one entry carries
GroupOf(name) == {i \in 1..Len(corpus) : group_name(corpus[i]) = name}

DuplicateNames ==
    {n \in {group_name(corpus[i]) : i \in 1..Len(corpus)} : Cardinality(GroupOf(n)) > 1}

IdsOf(places) == {corpus[i].id : i \in places}

Range(s) == {s[i] : i \in 1..Len(s)}

\* the entry a policy retains: none of its group is older (newer)
Retained(id, name) ==
    \E i \in GroupOf(name) :
        /\ corpus[i].id = id
        /\ \A j \in GroupOf(name) :
              IF keep = "oldest" THEN corpus[i].created_at <= corpus[j].created_at
              ELSE corpus[i].created_at >= corpus[j].created_at

\* C20: in dry-run mode the Duplicate Reconciler makes no delete call and
\* removes nothing, whatever the listing and the retention policy, and when
\* it is done it has reported, for each duplicate group exactly once, the
\* retained entry (the oldest or the newest of the group, as the policy says)
\* and every other entry of the group as flagged for deletion.
C20_DryRunDeletesNothing ==
    dry_run =>
        /\ delete_calls = <<>>
        /\ deleted_count = 0
        /\ rec_pc \in {"group", "decide", "done"} => corpus = all_docs
        /\ rec_pc = "done" =>
              /\ {report[k].name : k \in 1..Len(report)} = DuplicateNames
              /\ Len(report) = Cardinality(DuplicateNames)
              /\ \A k \in 1..Len(report) :
                    /\ Retained(report[k].keep, report[k].name)
                    /\ Len(report[k].flagged) = Cardinality(GroupOf(report[k].name)) - 1
                    /\ Range(report[k].flagged)
                         = IdsOf(GroupOf(report[k].name)) \ {report[k].keep}

\* three documents named "x" created at 1, 3 and 2, keep oldest, dry run: the
\* first is retained, the other two are flagged, and nothing was deleted
C20_Witness ==
    /\ dry_run
    /\ keep = "oldest"
    /\ rec_pc = "done"
    /\ corpus = <<Doc(1, <<"x">>, 1), Doc(2, <<"x">>, 3), Doc(3, <<"x">>, 2)>>
    /\ report = <<[name |-> <<"x">>, keep |-> 1, flagged |-> <<3, 2>>]>>
    /\ delete_calls = <<>>

\* the entries listed under a group's name, by id, and an entry's creation time
ListedGroup(name) == {all_docs[i].id : i \in {j \in 1..Len(all_docs) : group_name(all_docs[j]) = name}}

ListedNames == {group_name(all_docs[i]) : i \in 1..Len(all_docs)}

Created(id) == all_docs[CHOOSE i \in 1..Len(all_docs) : all_docs[i].id = id].created_at

\* the entries a finished run has selected for deletion: those the dry run
\* printed as DELETE, those the delete mode called delete for
Selected ==
    IF dry_run THEN UNION {Range(report[k].flagged) : k \in 1..Len(report)}
    ELSE {delete_calls[k].id : k \in 1..Len(delete_calls)}

Decisions(name) == {k \in 1..Len(report) : report[k].name = name}

\* C21: when a run is done, every name group of more than one entry has one
\* decision, whose retained entry is of the group and has the minimum
\* (keep="oldest") or the maximum (keep="newest") creation time of the group;
\* every other entry of the group is selected for deletion, the retained one
\* is not, and no entry of a group of one is selected.
C21_OneRetainedPerGroup ==
    rec_pc = "done" =>
        \A n \in ListedNames :
            IF Cardinality(ListedGroup(n)) > 1
            THEN /\ Cardinality(Decisions(n)) = 1
                 /\ \A k \in Decisions(n) :
                       /\ report[k].keep \in ListedGroup(n)
                       /\ \A id \in ListedGroup(n) :
                             IF keep = "oldest"
                             THEN Created(report[k].keep)
                                    <= Created(id)
                             ELSE Created(report[k].keep)
                                    >= Created(id)
                       /\ Selected \cap ListedGroup(n) = ListedGroup(n) \ {report[k].keep}
            ELSE /\ Decisions(n) = {}
                 /\ Selected \cap ListedGroup(n) = {}

\* a delete run that keeps the newest: of two entries named "x" the later is
\* retained and the earlier deleted, the single "y" is left alone
C21_Witness ==
    /\ ~dry_run
    /\ keep = "newest"
    /\ rec_pc = "done"
    /\ all_docs = <<Doc(1, <<"x">>, 1), Doc(2, <<"y">>, 2), Doc(3, <<"x">>, 3)>>
    /\ report = <<[name |-> <<"x">>, keep |-> 3, flagged |-> <<>>]>>
    /\ delete_calls = <<[id |-> 1, deleted |-> TRUE]>>

\* the entries a decision leaves out: all of the group but the retained one
NotRetained ==
    UNION {ListedGroup(report[k].name) \ {report[k].keep} : k \in 1..Len(report)}

\* C22: a finished delete-mode run has called delete exactly once for every
\* entry of a duplicate group that is not retained and for no other entry,
\* whichever of the calls failed; the corpus has lost exactly the entries
\* whose delete succeeded, and deleted_count counts them.
C22_DeleteEveryNonRetainedOnce ==
    (~dry_run /\ rec_pc = "done") =>
        /\ {delete_calls[k].id : k \in 1..Len(delete_calls)} = NotRetained
        /\ Len(delete_calls) = Cardinality(NotRetained)
        /\ \A k \in 1..Len(report) :
              \A c \in 1..Len(delete_calls) : delete_calls[c].id # report[k].keep
        /\ {corpus[i].id : i \in 1..Len(corpus)}
             = {all_docs[i].id : i \in 1..Len(all_docs)}
               \ {delete_calls[c].id : c \in {b \in 1..Len(delete_calls) : delete_calls[b].deleted}}
        /\ deleted_count = Cardinality({c \in 1..Len(delete_calls) : delete_calls[c].deleted})

\* the first delete of the first group failed; the second entry of that group
\* and the entry of the next group were still attempted
C22_Witness ==
    /\ ~dry_run
    /\ rec_pc = "done"
    /\ Len(report) = 2
    /\ Len(delete_calls) = 2
    /\ ~delete_calls[1].deleted
    /\ delete_calls[2].deleted
    /\ delete_calls[1].id \in ListedGroup(report[1].name)
    /\ delete_calls[2].id \in ListedGroup(report[2].name)

\* how often an entry occurs in a sequence of entries
Occurrences(docs, d) == Cardinality({j \in 1..Len(docs) : docs[j] = d})

\* C23: when the pagination loop has ended, all_docs is the whole listing of
\* the backend, every entry of every page in order; from then on each
\* accumulated entry is in exactly one name group, once, and an entry with no
\* name is in the group of the placeholder "unnamed".
C23_NoListedDocumentDropped ==
    /\ rec_pc = "group" => all_docs = corpus
    /\ rec_pc \in {"group", "decide", "delete", "done"} =>
          \A i \in 1..Len(all_docs) :
              /\ Cardinality({n \in ListedNames :
                                 Occurrences(by_name(all_docs, n), all_docs[i]) > 0}) = 1
              /\ \A n \in ListedNames : Occurrences(by_name(all_docs, n), all_docs[i]) <= 1
              /\ all_docs[i].name = <<>> =>
                    Occurrences(by_name(all_docs, Unnamed), all_docs[i]) = 1

\* a listing of more than one page with two nameless entries: both were
\* accumulated and decided on as the group "unnamed"
C23_Witness ==
    /\ rec_pc = "done"
    /\ page > 1
    /\ Len(all_docs) = MaxDocs
    /\ all_docs[1].name = <<>>
    /\ all_docs[Len(all_docs)].name = <<>>
    /\ Len(report) = 1
    /\ report[1].name = Unnamed

\* ------------------------------------------------------------------------
\* Processing order
\* ------------------------------------------------------------------------
\* the chapter of a surah directory, and the row of a section among the
\* sections of its chapter (Materialize writes them in this order)
ChapterOf(d) == CHOOSE s \in IngestSurahs : surah_dir_name(s) = d

RowOf(d, id) == CHOOSE a \in 1..MaxFiles : safe_id(FormatKey(ChapterOf(d), a)) = id

\* the directories are taken in ascending chapter number
IngestChaptersAscending ==
    \A i, j \in 1..Len(surah_dirs) :
        i < j => ChapterOf(surah_dirs[i]) < ChapterOf(surah_dirs[j])

\* the files of the current directory are taken in row order
IngestFilesInRowOrder ==
    ing_pc = "upload" =>
        \A i, j \in 1..Len(text_files) :
            i < j => RowOf(surah_dirs[dir_idx], text_files[i])
                       < RowOf(surah_dirs[dir_idx], text_files[j])

\* C24: Ingest takes the chapter directories in ascending chapter number and,
\* within a chapter, the files to upload in the row order of their sections.
C24_IngestInRowOrder ==
    IngestChaptersAscending /\ IngestFilesInRowOrder

\* ------------------------------------------------------------------------
\* Delete-then-create
\* ------------------------------------------------------------------------
\* C26: in every iteration that reaches the backend, the id the delete call
\* is made with is the id of the document the iteration creates.
C26_DeleteTargetsCreatedId ==
    pc \in {"delete", "create"} => delete_document_id(surah) = core_doc_id(surah)

\* a run was terminated between the delete call and the create call of surah s
KilledAt(s) == pc = "aborted" /\ raised = "killed" /\ surah = s

\* C25: when a run has been terminated between a surah's delete call (which
\* did not fail) and its create call, the surah's document is absent from the
\* corpus; and when a later run's create call for the surah has succeeded,
\* the corpus holds the surah's document as that run built it.
C25_KilledRunLeavesDocumentAbsent ==
    \A s \in Surahs :
        /\ (KilledAt(s) /\ Has(log[s], {"delete:ok", "delete:notfound"})) =>
              core_doc_id(s) \notin DOMAIN backend
        /\ (run > 1 /\ Has(log[s], {"create:ok"})) =>
              /\ core_doc_id(s) \in DOMAIN backend
              /\ backend[core_doc_id(s)] = snapshots[json_file_path(s)]

\* ------------------------------------------------------------------------
\* Text files and their sidecars
\* ------------------------------------------------------------------------
\* C27: when a Materialize run has ended, completed or aborted, every text
\* file of every surah directory has its metadata sidecar next to it.
C27_EveryTextHasSidecar ==
    mat_pc \in {"done", "aborted"} =>
        \A d \in DOMAIN output : \A id \in DOMAIN output[d] :
            output[d][id].meta # NoMeta

\* ------------------------------------------------------------------------
\* Dry run and delete mode
\* ------------------------------------------------------------------------
\* the groups of a report with the entry each retains
Kept(r) == [k \in 1..Len(r) |-> <<r[k].name, r[k].keep>>]

\* C28: when a delete-mode run over the listing and the policy of an earlier
\* dry run is done, the entries it has called delete for are the entries the
\* dry run reported as DELETE, and it has retained, group by group, the entry
\* the dry run reported as KEEP.
C28_DryRunAndDeleteModeAgree ==
    (preview.taken /\ rec_pc = "done") =>
        /\ {delete_calls[c].id : c \in 1..Len(delete_calls)}
             = UNION {Range(preview.report[k].flagged) : k \in 1..Len(preview.report)}
        /\ Kept(report) = Kept(preview.report)

\* two groups, the entries of one created at the same time and those of the
\* other listed newest first: both modes decided alike
C28_Witness ==
    /\ preview.taken
    /\ rec_pc = "done"
    /\ keep = "oldest"
    /\ all_docs = <<Doc(1, <<"x">>, 2), Doc(2, <<"y">>, 1), Doc(3, <<"x">>, 1),
                    Doc(4, <<"y">>, 1)>>
    /\ Kept(report) = <<<< <<"x">>, 3>>, << <<"y">>, 2>>>>
    /\ Len(delete_calls) = 2
    /\ delete_calls[1].id = 1
    /\ delete_calls[2].id = 4

====
